---- MODULE Spec2Model ----
(***************************************************************************)
(* Verification model of the cloud-native-stack bundling pipeline:         *)
(*   - bundler.Make and its sequential / parallel dispatch                 *)
(*     (pkg/bundler/options.go, the bundler registry),                     *)
(*   - the deployer registry (pkg/deployer/registry/registry.go),          *)
(*   - the script / argocd / flux deployers' Generate                      *)
(*     (pkg/deployer/provider),                                            *)
(*   - checksum generation (pkg/bundler/checksum, networkoperator).        *)
(* Each part has its own specification over its own group of variables;    *)
(* the other groups stay at their idle values.                             *)
(***************************************************************************)
EXTENDS Naturals, Sequences, FiniteSets, TLC

(***************************************************************************)
(* Bounds of the model.                                                    *)
(***************************************************************************)
\* longest BundlerTypes list a caller passes to Make
MaxTypes == 2
\* most files a bundler's Make reports in its BundleResult
MaxFiles == 2
\* most components (and most names in the deployment order) of a RecipeResult
MaxComps == 1
\* most files handed to GenerateChecksums
MaxSumFiles == 2
\* number of configurations the network operator templates are rendered from
MaxConfig == 2
\* most components of a recipe handed to the component orderer
MaxOrdComps == 3
\* most overlays in the recipe store
MaxOverlays == 3
\* most components, and most names in the order, of a Flux HelmRelease chain
MaxChain == 3
\* most overlay fragments merged onto the base recipe
MaxFragments == 2

(***************************************************************************)
(* Program constants.                                                      *)
(***************************************************************************)
\* size of a file a bundler reports through AddFile
FileSize == 100

\* the bundle types a bundler is registered under
BundleTypes == {"gpu-operator", "network-operator"}

(***************************************************************************)
(* Generic helpers.                                                        *)
(***************************************************************************)
Range(s) == {s[i] : i \in 1..Len(s)}

SeqsUpTo(S, n) == UNION {[1..k -> S] : k \in 0..n}

\* index of the first occurrence of x in s, 0 when absent
RECURSIVE IndexFrom(_, _, _)
IndexFrom(s, x, i) ==
    IF i > Len(s) THEN 0
    ELSE IF s[i] = x THEN i
    ELSE IndexFrom(s, x, i + 1)

IndexOf(s, x) == IndexFrom(s, x, 1)

VARIABLES
    \* ---- bundler.Make ----
    defaultRegistry,  \* set of bundle types registered in the default registry
    options,          \* MakeOptions: BundlerTypes, Parallel, FailFast, DryRun
    recipe,           \* "nil" | "empty" | "valid"
    ctxDone,          \* the caller's context has been cancelled
    mpc,              \* position of Make
    dirCreated,       \* os.MkdirAll(dir) has run
    bundlers,         \* the map selectBundlers returned (its key set)
    remaining,        \* keys of `bundlers` the range loop has not yet visited
    started,          \* bundle types executeBundler was called for, in order
    startedDone,      \* for each entry of `started`: ctx was cancelled at the call
    made,             \* bundle types whose Bundler.Make was called
    failed,           \* bundle types whose executeBundler returned an error
    output,           \* the BundleOutput under construction
    ret,              \* what Make returned: [output, err]
    wpc,              \* parallel mode: position of each worker goroutine
    wres,             \* deployer type -> what its executeBundler returned
    resultChan,       \* parallel mode: buffered channel of results
    errorChan,        \* parallel mode: buffered channel of BundleErrors
    groupErr          \* parallel mode: errgroup's first error ("none" if none)

makeVars == <<defaultRegistry, options, recipe, ctxDone, mpc, dirCreated, bundlers,
              remaining, started, startedDone, made, failed, output, ret, wpc, wres,
              resultChan, errorChan, groupErr>>

VARIABLES
    \* ---- deployer registry ----
    globalDeployers,  \* globalRegistry.deployers: factory per type, "nil" if absent
    globalMu,         \* the RWMutex: [writer, readers]
    rpc,              \* position of each caller of the registry
    rarg,             \* arguments of the caller's Register
    rprev,            \* what Register found under its type when it looked
    rret,             \* error returned by the caller's last Register
    regOk,            \* per type, how many Register calls have returned nil
    snap,             \* the Registry NewFromGlobal is filling / has returned
    snapTodo          \* keys of the global map the copy loop has not yet visited

regVars == <<globalDeployers, globalMu, rpc, rarg, rprev, rret, regOk, snap, snapTodo>>

VARIABLES
    \* ---- the deployers' Generate ----
    recipeResult,     \* the RecipeResult: ComponentRefs (names), DeploymentOrder
    genCtxDone,       \* the context handed to Generate has been cancelled
    gpc,              \* position of each deployer's Generate
    gplan,            \* the steps of each running Generate, in program order
    gidx,             \* how many steps of its plan a Generate has completed
    artifacts,        \* the result.Artifacts each Generate is filling
    generr,           \* whether Generate returned a non-nil error
    fs,               \* files under the bundle directory: path -> content
    fsLog,            \* every write made: [by, path]
    lateWrite         \* a file was written after the context had been cancelled

genVars == <<recipeResult, genCtxDone, gpc, gplan, gidx, artifacts, generr, fs, fsLog,
             lateWrite>>

VARIABLES
    \* ---- checksums: checksum.GenerateChecksums and the network operator bundler ----
    sumFiles,         \* GenerateChecksums: the files argument
    sumCtxDone,       \* GenerateChecksums: its context is cancelled
    sumUnreadable,    \* GenerateChecksums: files os.ReadFile fails on
    sumpc,            \* GenerateChecksums: "call" | "done"
    sumErr,           \* GenerateChecksums: the error returned
    sumOut,           \* GenerateChecksums: the lines of the checksums.txt it wrote
    sumWritten,       \* GenerateChecksums: checksums.txt was written
    nconfig,          \* network operator: the configuration the templates render
    nctxDone,         \* network operator: the context of Make is cancelled
    nstage,           \* network operator: number of bundle files generated so far
    npc,              \* network operator: position of Make
    nfiles,           \* network operator: result.Files
    nfs,              \* network operator: files written, path -> content
    nwrites,          \* network operator: paths in the order they were written
    nsums,            \* network operator: the lines of checksums.txt
    nret              \* network operator: what Make returned

sumVars == <<sumFiles, sumCtxDone, sumUnreadable, sumpc, sumErr, sumOut, sumWritten,
             nconfig, nctxDone, nstage, npc, nfiles, nfs, nwrites, nsums, nret>>

VARIABLES
    \* ---- component ordering ----
    ocomps,           \* the ComponentRefs: sequence of [name, dependencyRefs]
    opc,              \* position of the orderer
    oorder,           \* names emitted so far; the deploymentOrder on success
    oerr,             \* "none" | "UnresolvedDependencyError" | "CycleError"
    ocycle            \* the nodes a CycleError lists

ordVars == <<ocomps, opc, oorder, oerr, ocycle>>

VARIABLES
    \* ---- criteria matching and the recipe builder ----
    bquery,           \* the Criteria of the request
    boverlays,        \* the store's overlays in source order: [criteria, keys]
    bpc,              \* position of Build
    bmatched,         \* indices of the overlays selected, in application order
    bapplied,         \* indices of the overlays merged so far (matchedOverlayIds)
    bvalues           \* the working copy's values: key -> index of the overlay that set it

buildVars == <<bquery, boverlays, bpc, bmatched, bapplied, bvalues>>

VARIABLES
    \* ---- the HelmRelease loop of the Flux deployer ----
    ccomps,           \* recipeResult.ComponentRefs (names)
    corder,           \* recipeResult.DeploymentOrder
    cpc,              \* position of the loop
    cordered,         \* orderedComponents
    creleases,        \* the HelmReleases rendered so far: [Name, DependsOnName]
    cprevious,        \* previousName
    capps             \* the Argo-CD Applications rendered so far: [Name, SyncWave]

chainVars == <<ccomps, corder, cpc, cordered, creleases, cprevious, capps>>

VARIABLES
    \* ---- the merge of overlay fragments onto the base recipe ----
    kfrags,           \* the fragments of the matching overlays, in application order
    kpc,              \* position of the merge
    kidx,             \* number of fragments merged so far
    kwork             \* the working copy: [components, measurements]

mergeVars == <<kfrags, kpc, kidx, kwork>>

VARIABLES
    \* ---- the HTTP server and its /ready handler ----
    srvReady,         \* s.ready
    srvPc,            \* position of the server's life cycle
    hpc,              \* handler goroutine -> its position in handleReady
    hmethod,          \* handler goroutine -> r.Method of its request
    hready,           \* handler goroutine -> its local ready
    hphase,           \* handler goroutine -> srvPc when it read s.ready
    hcode             \* handler goroutine -> the status code it answered last

serverVars == <<srvReady, srvPc, hpc, hmethod, hready, hphase, hcode>>

vars == <<makeVars, regVars, genVars, sumVars, ordVars, buildVars, chainVars, mergeVars,
          serverVars>>

\* the variable groups a step of Make leaves alone
otherThanMake ==
    <<regVars, genVars, sumVars, ordVars, buildVars, chainVars, mergeVars,
      serverVars>>

\* the variable groups a step of the registry leaves alone
otherThanReg ==
    <<makeVars, genVars, sumVars, ordVars, buildVars, chainVars, mergeVars,
      serverVars>>

\* the variable groups a step of a deployer leaves alone
otherThanGen ==
    <<makeVars, regVars, sumVars, ordVars, buildVars, chainVars, mergeVars,
      serverVars>>

\* the variable groups a step of the checksum code leaves alone
otherThanSum ==
    <<makeVars, regVars, genVars, ordVars, buildVars, chainVars, mergeVars,
      serverVars>>

\* the variable groups a step of the component orderer leaves alone
otherThanOrd ==
    <<makeVars, regVars, genVars, sumVars, buildVars, chainVars, mergeVars,
      serverVars>>

\* the variable groups a step of the recipe builder leaves alone
otherThanBuild ==
    <<makeVars, regVars, genVars, sumVars, ordVars, chainVars, mergeVars,
      serverVars>>

\* the variable groups a step of the HelmRelease loop leaves alone
otherThanChain ==
    <<makeVars, regVars, genVars, sumVars, ordVars, buildVars, mergeVars,
      serverVars>>

\* the variable groups a step of the fragment merge leaves alone
otherThanMerge ==
    <<makeVars, regVars, genVars, sumVars, ordVars, buildVars, chainVars,
      serverVars>>

(***************************************************************************)
(* bundler.Make                                                            *)
(***************************************************************************)
EmptyOutput ==
    [Results |-> <<>>, Errors |-> <<>>, TotalFiles |-> 0, TotalSize |-> 0,
     OutputDir |-> ""]

NoReturn == [output |-> "pending", err |-> "pending"]

\* NewBundleResult(bundlerType): no files, not successful
NewBundleResult(t) == [Type |-> t, Success |-> FALSE, Files |-> 0, Size |-> 0]

\* ValidateRecipeStructure: nil and measurement-less recipes are rejected
ValidateRecipeStructure(r) == r = "valid"

\* a Make that tests the recipe for nil only
RecipeRejectedNilOnly(r) == r = "nil"

\* Make's input validation: the nil test, then ValidateRecipeStructure
RecipeRejected(r) == r = "nil" \/ ~ValidateRecipeStructure(r)

\* selectBundlers: no types given selects every registered bundler; otherwise
\* the given types that are registered, the others being dropped
selectBundlers(types, registered) ==
    IF Len(types) = 0 THEN registered
    ELSE {t \in Range(types) : t \in registered}

\* what a Bundler can do when executeBundler drives it
Outcomes(dryRun) ==
    IF dryRun THEN {"configuration", "validation", "ok"}
    ELSE {"configuration", "validation", "execution", "ok"}

\* an executeBundler that calls Bundler.Make whatever DryRun says
executeBundlerAlwaysMakes(t, outcome, n, dryRun) ==
    IF outcome \in {"configuration", "validation"}
    THEN [result |-> NewBundleResult(t), err |-> TRUE, made |-> FALSE]
    ELSE IF outcome = "execution"
    THEN [result |-> NewBundleResult(t), err |-> TRUE, made |-> TRUE]
    ELSE [result |-> [Type |-> t, Success |-> TRUE, Files |-> n,
                      Size |-> n * FileSize],
          err |-> FALSE, made |-> TRUE]

\* executeBundler: Configure, Validate, then (unless DryRun) Bundler.Make;
\* a failure returns the fresh, unsuccessful result together with the error
executeBundler(t, outcome, n, dryRun) ==
    IF outcome \in {"configuration", "validation"}
    THEN [result |-> NewBundleResult(t), err |-> TRUE, made |-> FALSE]
    ELSE IF outcome = "execution"
    THEN [result |-> NewBundleResult(t), err |-> TRUE, made |-> TRUE]
    ELSE IF dryRun
    THEN [result |-> [NewBundleResult(t) EXCEPT !.Success = TRUE],
          err |-> FALSE, made |-> FALSE]
    ELSE [result |-> [Type |-> t, Success |-> TRUE, Files |-> n,
                      Size |-> n * FileSize],
          err |-> FALSE, made |-> TRUE]

\* appending one result without adding its size to the total
AddResultFilesOnly(out, r) ==
    [out EXCEPT !.Results = Append(@, r),
                !.TotalFiles = IF r.Success THEN @ + r.Files ELSE @]

\* appending one result: totals grow only for successful results
AddResult(out, r) ==
    [out EXCEPT !.Results = Append(@, r),
                !.TotalFiles = IF r.Success THEN @ + r.Files ELSE @,
                !.TotalSize = IF r.Success THEN @ + r.Size ELSE @]

AddError(out, t) == [out EXCEPT !.Errors = Append(@, [BundlerType |-> t])]

\* variants of SeqStops: a loop that returns on every error, and one that never does
SeqStopsOnAnyError(failFast, hasErr) == hasErr

SeqStopsNever(failFast, hasErr) == FALSE

\* makeSequential: the loop returns at once on an error when FailFast is set
SeqStops(failFast, hasErr) == failFast /\ hasErr

\* makeParallel: a worker hands its error to the errgroup only under FailFast
WorkerReturnsErr(failFast, hasErr) == failFast /\ hasErr

MakeInit ==
    /\ defaultRegistry \in SUBSET BundleTypes
    /\ options \in [BundlerTypes : SeqsUpTo(BundleTypes, MaxTypes),
                    Parallel : BOOLEAN, FailFast : BOOLEAN, DryRun : BOOLEAN]
    /\ recipe \in {"nil", "empty", "valid"}
    /\ ctxDone = FALSE
    /\ mpc = "start"
    /\ dirCreated = FALSE
    /\ bundlers = {}
    /\ remaining = {}
    /\ started = <<>>
    /\ startedDone = <<>>
    /\ made = {}
    /\ failed = {}
    /\ output = EmptyOutput
    /\ ret = NoReturn
    /\ wpc = [t \in BundleTypes |-> "none"]
    /\ wres = [t \in BundleTypes |-> [result |-> NewBundleResult(t), err |-> FALSE]]
    /\ resultChan = <<>>
    /\ errorChan = <<>>
    /\ groupErr = "none"

\* the context handed to Make is cancelled by its owner at any moment
Cancel ==
    /\ mpc # "done"
    /\ ~ctxDone
    /\ ctxDone' = TRUE
    /\ UNCHANGED <<defaultRegistry, options, recipe, mpc, dirCreated, bundlers,
                   remaining, started, startedDone, made, failed, output, ret, wpc, wres,
                   resultChan, errorChan, groupErr>>
    /\ UNCHANGED otherThanMake

\* Make, up to the dispatch: validation, MkdirAll, selectBundlers
MakeRejectRecipe ==
    /\ mpc = "start"
    /\ RecipeRejected(recipe)
    /\ mpc' = "done"
    /\ ret' = [output |-> "nil", err |-> "InvalidRequest"]
    /\ UNCHANGED <<defaultRegistry, options, recipe, ctxDone, dirCreated, bundlers,
                   remaining, started, startedDone, made, failed, output, wpc, wres,
                   resultChan, errorChan, groupErr>>
    /\ UNCHANGED otherThanMake

MakeMkdirFails ==
    /\ mpc = "start"
    /\ ~RecipeRejected(recipe)
    /\ ~options.DryRun
    /\ mpc' = "done"
    /\ ret' = [output |-> "nil", err |-> "Internal"]
    /\ UNCHANGED <<defaultRegistry, options, recipe, ctxDone, dirCreated, bundlers,
                   remaining, started, startedDone, made, failed, output, wpc, wres,
                   resultChan, errorChan, groupErr>>
    /\ UNCHANGED otherThanMake

MakeSelect ==
    /\ mpc = "start"
    /\ ~RecipeRejected(recipe)
    /\ dirCreated' = ~options.DryRun
    /\ LET sel == selectBundlers(options.BundlerTypes, defaultRegistry) IN
        /\ bundlers' = sel
        /\ IF sel = {}
           THEN /\ mpc' = "done"
                /\ ret' = [output |-> "nil", err |-> "InvalidRequest"]
                /\ UNCHANGED <<remaining, wpc>>
           ELSE IF options.Parallel
           THEN \* the range loop starts one goroutine per map entry
                /\ mpc' = "wait"
                /\ wpc' = [t \in BundleTypes |-> IF t \in sel THEN "execute" ELSE "none"]
                /\ UNCHANGED <<remaining, ret>>
           ELSE /\ mpc' = "seq"
                /\ remaining' = sel
                /\ UNCHANGED <<ret, wpc>>
    /\ UNCHANGED <<defaultRegistry, options, recipe, ctxDone, started, startedDone,
                   made, failed, output, wres, resultChan, errorChan, groupErr>>
    /\ UNCHANGED otherThanMake

\* one iteration of makeSequential's range over the bundlers map; Go leaves
\* the iteration order of a map unspecified, so any remaining key may come next
SeqIterate ==
    /\ mpc = "seq"
    /\ \E t \in remaining, oc \in Outcomes(options.DryRun), n \in 1..MaxFiles :
        LET r == executeBundler(t, oc, n, options.DryRun)
            out1 == AddResult(output, r.result)
            out2 == IF r.err THEN AddError(out1, t) ELSE out1
        IN  /\ (oc # "ok" \/ options.DryRun) => n = 1
            /\ started' = Append(started, t)
            /\ startedDone' = Append(startedDone, ctxDone)
            /\ made' = IF r.made THEN made \cup {t} ELSE made
            /\ failed' = IF r.err THEN failed \cup {t} ELSE failed
            /\ output' = out2
            /\ wres' = [wres EXCEPT ![t] = [result |-> r.result, err |-> r.err]]
            /\ remaining' = remaining \ {t}
            /\ IF SeqStops(options.FailFast, r.err)
               THEN /\ mpc' = "done"
                    /\ ret' = [output |-> "output", err |-> "Internal"]
               ELSE UNCHANGED <<mpc, ret>>
    /\ UNCHANGED <<defaultRegistry, options, recipe, ctxDone, dirCreated, bundlers,
                   wpc, resultChan, errorChan, groupErr>>
    /\ UNCHANGED otherThanMake

\* makeSequential after the loop, and Make's epilogue
SeqReturn ==
    /\ mpc = "seq"
    /\ remaining = {}
    /\ mpc' = "done"
    /\ IF Len(output.Errors) > 0 /\ options.FailFast
       THEN /\ ret' = [output |-> "output", err |-> "Internal"]
            /\ UNCHANGED output
       ELSE /\ ret' = [output |-> "output", err |-> "none"]
            /\ output' = [output EXCEPT !.OutputDir = "dir"]
    /\ UNCHANGED <<defaultRegistry, options, recipe, ctxDone, dirCreated, bundlers,
                   remaining, started, startedDone, made, failed, wpc, wres,
                   resultChan, errorChan, groupErr>>
    /\ UNCHANGED otherThanMake

\* channels made without a buffer
ChanCapUnbuffered(bs) == 0

\* the capacity of resultChan and errorChan: make(chan ..., len(bundlers))
ChanCap(bs) == Cardinality(bs)

\* a worker goroutine of makeParallel runs executeBundler
WorkerExecute(t) ==
    /\ mpc = "wait"
    /\ wpc[t] = "execute"
    /\ \E oc \in Outcomes(options.DryRun), n \in 1..MaxFiles :
        LET r == executeBundler(t, oc, n, options.DryRun) IN
            /\ (oc # "ok" \/ options.DryRun) => n = 1
            /\ started' = Append(started, t)
            /\ startedDone' = Append(startedDone, ctxDone)
            /\ made' = IF r.made THEN made \cup {t} ELSE made
            /\ failed' = IF r.err THEN failed \cup {t} ELSE failed
            /\ wres' = [wres EXCEPT ![t] = [result |-> r.result, err |-> r.err]]
    /\ wpc' = [wpc EXCEPT ![t] = "sendResult"]
    /\ UNCHANGED <<defaultRegistry, options, recipe, ctxDone, mpc, dirCreated,
                   bundlers, remaining, output, ret, resultChan, errorChan, groupErr>>
    /\ UNCHANGED otherThanMake

\* resultChan <- result (the channel holds len(bundlers) entries)
WorkerSendResult(t) ==
    /\ mpc = "wait"
    /\ wpc[t] = "sendResult"
    /\ Len(resultChan) < ChanCap(bundlers)
    /\ resultChan' = Append(resultChan, wres[t].result)
    /\ wpc' = [wpc EXCEPT ![t] = IF wres[t].err THEN "sendError" ELSE "return"]
    /\ UNCHANGED <<defaultRegistry, options, recipe, ctxDone, mpc, dirCreated,
                   bundlers, remaining, started, startedDone, made, failed, output, ret,
                   wres, errorChan, groupErr>>
    /\ UNCHANGED otherThanMake

\* errorChan <- BundleError{...}
WorkerSendError(t) ==
    /\ mpc = "wait"
    /\ wpc[t] = "sendError"
    /\ Len(errorChan) < ChanCap(bundlers)
    /\ errorChan' = Append(errorChan, [BundlerType |-> t])
    /\ wpc' = [wpc EXCEPT ![t] = "return"]
    /\ UNCHANGED <<defaultRegistry, options, recipe, ctxDone, mpc, dirCreated,
                   bundlers, remaining, started, startedDone, made, failed, output, ret,
                   wres, resultChan, groupErr>>
    /\ UNCHANGED otherThanMake

\* the goroutine returns; errgroup keeps the first non-nil error and cancels gctx
WorkerReturn(t) ==
    /\ mpc = "wait"
    /\ wpc[t] = "return"
    /\ wpc' = [wpc EXCEPT ![t] = "done"]
    /\ groupErr' = IF WorkerReturnsErr(options.FailFast, wres[t].err) /\ groupErr = "none"
                   THEN t ELSE groupErr
    /\ UNCHANGED <<defaultRegistry, options, recipe, ctxDone, mpc, dirCreated,
                   bundlers, remaining, started, startedDone, made, failed, output, ret,
                   wres, resultChan, errorChan>>
    /\ UNCHANGED otherThanMake

\* a drain of the result channel that keeps the successful results only
RECURSIVE CollectSuccessfulOnly(_, _)
CollectSuccessfulOnly(out, rs) ==
    IF rs = <<>> THEN out
    ELSE CollectSuccessfulOnly(IF Head(rs).Success THEN AddResult(out, Head(rs)) ELSE out,
                               Tail(rs))

\* the drain of the closed result channel: every result is appended
RECURSIVE Collect(_, _)
Collect(out, rs) ==
    IF rs = <<>> THEN out ELSE Collect(AddResult(out, Head(rs)), Tail(rs))

\* g.Wait() returned: drain both channels, then Make's epilogue
ParCollect ==
    /\ mpc = "wait"
    /\ \A t \in bundlers : wpc[t] = "done"
    /\ LET out == [Collect(output, resultChan) EXCEPT !.Errors = errorChan] IN
        IF groupErr # "none" /\ options.FailFast
        THEN /\ output' = out
             /\ ret' = [output |-> "output", err |-> "Internal"]
        ELSE /\ output' = [out EXCEPT !.OutputDir = "dir"]
             /\ ret' = [output |-> "output", err |-> "none"]
    /\ mpc' = "done"
    /\ resultChan' = <<>>
    /\ errorChan' = <<>>
    /\ UNCHANGED <<defaultRegistry, options, recipe, ctxDone, dirCreated, bundlers,
                   remaining, started, startedDone, made, failed, wpc, wres, groupErr>>
    /\ UNCHANGED otherThanMake

MakeNext ==
    \/ Cancel
    \/ MakeRejectRecipe
    \/ MakeMkdirFails
    \/ MakeSelect
    \/ SeqIterate
    \/ SeqReturn
    \/ \E t \in BundleTypes : WorkerExecute(t)
    \/ \E t \in BundleTypes : WorkerSendResult(t)
    \/ \E t \in BundleTypes : WorkerSendError(t)
    \/ \E t \in BundleTypes : WorkerReturn(t)
    \/ ParCollect

(***************************************************************************)
(* The deployer registry (pkg/deployer/registry).                          *)
(***************************************************************************)
\* the deployer types that announce themselves to the registry
DeployerTypes == {"script", "argocd", "flux"}

\* factories a caller may hand to Register
Factories == {"factoryA", "factoryB"}

\* goroutines that use the registry
Procs == {"p1", "p2"}

EmptyDeployers == [t \in DeployerTypes |-> "nil"]

\* a goroutine that is not inside Register holds no arguments
NoArgs == [type |-> "script", factory |-> "nil"]

\* Register's test: the type already has a factory
AlreadyRegistered(deployers, t) == deployers[t] # "nil"

\* a Register that stores the new factory whatever it found
RegisterOverwriting(deployers, exists, t, f) == [deployers EXCEPT ![t] = f]

\* Register's effect on the map: when the type was found, nothing is stored
RegisterStore(deployers, exists, t, f) ==
    IF exists THEN deployers ELSE [deployers EXCEPT ![t] = f]

\* Register's result
RegisterErr(exists) == IF exists THEN "already registered" ELSE "nil"

\* a write lock that is granted whoever holds the mutex
CanLockUnguarded(mu) == TRUE

\* globalMu.Lock() is granted: no writer and no reader holds the mutex
CanLock(mu) == mu.writer = "none" /\ mu.readers = {}

\* globalMu.RLock() is granted: no writer holds the mutex
CanRLock(mu) == mu.writer = "none"

RegInit ==
    /\ globalDeployers = EmptyDeployers
    /\ globalMu = [writer |-> "none", readers |-> {}]
    /\ rpc = [p \in Procs |-> "idle"]
    /\ rarg = [p \in Procs |-> NoArgs]
    /\ rprev = [p \in Procs |-> "nil"]
    /\ rret = [p \in Procs |-> "pending"]
    /\ regOk = [t \in DeployerTypes |-> 0]
    /\ snap = [p \in Procs |-> EmptyDeployers]
    /\ snapTodo = [p \in Procs |-> {}]

\* a goroutine calls Register(deployerType, factory)
RegisterCall(p, t, f) ==
    /\ rpc[p] = "idle"
    /\ rpc' = [rpc EXCEPT ![p] = "reg_lock"]
    /\ rarg' = [rarg EXCEPT ![p] = [type |-> t, factory |-> f]]
    /\ rret' = [rret EXCEPT ![p] = "pending"]
    /\ rprev' = [rprev EXCEPT ![p] = "nil"]
    /\ snap' = [snap EXCEPT ![p] = EmptyDeployers]
    /\ UNCHANGED <<globalDeployers, globalMu, regOk, snapTodo>>
    /\ UNCHANGED otherThanReg

\* globalMu.Lock()
RegisterLock(p) ==
    /\ rpc[p] = "reg_lock"
    /\ CanLock(globalMu)
    /\ globalMu' = [globalMu EXCEPT !.writer = p]
    /\ rpc' = [rpc EXCEPT ![p] = "reg_check"]
    /\ UNCHANGED <<globalDeployers, rarg, rprev, rret, regOk, snap, snapTodo>>
    /\ UNCHANGED otherThanReg

\* the existence test: _, exists := globalRegistry.deployers[deployerType]
RegisterCheck(p) ==
    /\ rpc[p] = "reg_check"
    /\ rprev' = [rprev EXCEPT ![p] = globalDeployers[rarg[p].type]]
    /\ rpc' = [rpc EXCEPT ![p] = "reg_body"]
    /\ UNCHANGED <<globalDeployers, globalMu, rarg, rret, regOk, snap, snapTodo>>
    /\ UNCHANGED otherThanReg

\* the error for a type that was found, else the store and nil
RegisterBody(p) ==
    /\ rpc[p] = "reg_body"
    /\ LET exists == rprev[p] # "nil"
           t == rarg[p].type
       IN  /\ rret' = [rret EXCEPT ![p] = RegisterErr(exists)]
           /\ globalDeployers' = RegisterStore(globalDeployers, exists, t, rarg[p].factory)
           /\ regOk' = [regOk EXCEPT ![t] = IF exists THEN @ ELSE @ + 1]
    /\ rpc' = [rpc EXCEPT ![p] = "reg_unlock"]
    /\ UNCHANGED <<globalMu, rarg, rprev, snap, snapTodo>>
    /\ UNCHANGED otherThanReg

\* the deferred globalMu.Unlock(), and the return (the arguments go out of scope)
RegisterUnlock(p) ==
    /\ rpc[p] = "reg_unlock"
    /\ globalMu' = [globalMu EXCEPT !.writer = "none"]
    /\ rpc' = [rpc EXCEPT ![p] = "idle"]
    /\ rarg' = [rarg EXCEPT ![p] = NoArgs]
    /\ rprev' = [rprev EXCEPT ![p] = "nil"]
    /\ UNCHANGED <<globalDeployers, rret, regOk, snap, snapTodo>>
    /\ UNCHANGED otherThanReg

\* a goroutine calls NewFromGlobal()
NewFromGlobalCall(p) ==
    /\ rpc[p] = "idle"
    /\ rpc' = [rpc EXCEPT ![p] = "nfg_rlock"]
    /\ rret' = [rret EXCEPT ![p] = "pending"]
    /\ snap' = [snap EXCEPT ![p] = EmptyDeployers]
    /\ UNCHANGED <<globalDeployers, globalMu, rarg, rprev, regOk, snapTodo>>
    /\ UNCHANGED otherThanReg

\* globalMu.RLock(), and the fresh, empty Registry
NewFromGlobalRLock(p) ==
    /\ rpc[p] = "nfg_rlock"
    /\ CanRLock(globalMu)
    /\ globalMu' = [globalMu EXCEPT !.readers = @ \cup {p}]
    /\ snap' = [snap EXCEPT ![p] = EmptyDeployers]
    /\ snapTodo' = [snapTodo EXCEPT ![p] =
                        {t \in DeployerTypes : AlreadyRegistered(globalDeployers, t)}]
    /\ rpc' = [rpc EXCEPT ![p] = "nfg_copy"]
    /\ UNCHANGED <<globalDeployers, rarg, rprev, rret, regOk>>
    /\ UNCHANGED otherThanReg

\* one iteration of the copy loop over the global map
NewFromGlobalCopy(p) ==
    /\ rpc[p] = "nfg_copy"
    /\ \E t \in snapTodo[p] :
        /\ snap' = [snap EXCEPT ![p][t] = globalDeployers[t]]
        /\ snapTodo' = [snapTodo EXCEPT ![p] = @ \ {t}]
    /\ UNCHANGED <<globalDeployers, globalMu, rpc, rarg, rprev, rret, regOk>>
    /\ UNCHANGED otherThanReg

\* a NewFromGlobal that hands out the global registry itself
NewFromGlobalReturnsGlobal(r) == "global"

\* the Registry NewFromGlobal returns: r, the one it allocated and filled
NewFromGlobalResult(r) == r

\* the deployers map of a Registry: the global one's, or that of the Registry
\* goroutine r allocated
Deployers(r) == IF r = "global" THEN globalDeployers ELSE snap[r]

\* the deferred globalMu.RUnlock(), and the return of the new Registry
NewFromGlobalReturn(p) ==
    /\ rpc[p] = "nfg_copy"
    /\ snapTodo[p] = {}
    /\ globalMu' = [globalMu EXCEPT !.readers = @ \ {p}]
    /\ rpc' = [rpc EXCEPT ![p] = "idle"]
    /\ rret' = [rret EXCEPT ![p] = "registry"]
    /\ UNCHANGED <<globalDeployers, rarg, rprev, regOk, snap, snapTodo>>
    /\ UNCHANGED otherThanReg

RegNext ==
    \/ \E p \in Procs, t \in DeployerTypes, f \in Factories : RegisterCall(p, t, f)
    \/ \E p \in Procs : RegisterLock(p)
    \/ \E p \in Procs : RegisterCheck(p)
    \/ \E p \in Procs : RegisterBody(p)
    \/ \E p \in Procs : RegisterUnlock(p)
    \/ \E p \in Procs : NewFromGlobalCall(p)
    \/ \E p \in Procs : NewFromGlobalRLock(p)
    \/ \E p \in Procs : NewFromGlobalCopy(p)
    \/ \E p \in Procs : NewFromGlobalReturn(p)

(***************************************************************************)
(* The deployers (pkg/deployer/provider/{script,argocd,flux}).             *)
(***************************************************************************)
\* component names of a recipe
CompNames == {"cert-manager", "gpu-operator", "skyhook"}

\* the bundle directory handed to Generate
BundleDir == "bundle"

\* filepath.Join of two elements
Join(a, b) == a \o "/" \o b

\* sequences without repetition, of length at most n
DistinctSeqs(S, n) ==
    {q \in SeqsUpTo(S, n) : \A i, j \in 1..Len(q) : i # j => q[i] # q[j]}

\* posMap: the position of a name in the order (0-based; the last one wins)
RECURSIVE LastIndexFrom(_, _, _)
LastIndexFrom(order, name, i) ==
    IF i = 0 THEN 0
    ELSE IF order[i] = name THEN i
    ELSE LastIndexFrom(order, name, i - 1)

InPosMap(order, name) == LastIndexFrom(order, name, Len(order)) # 0

PosMap(order, name) == LastIndexFrom(order, name, Len(order)) - 1

Swap(q, i, j) == [q EXCEPT ![i] = q[j], ![j] = q[i]]

\* a swap test that compares only components that are both in the order
ShouldSwapOrderedOnly(order, nameI, nameJ) ==
    /\ InPosMap(order, nameI)
    /\ InPosMap(order, nameJ)
    /\ PosMap(order, nameJ) < PosMap(order, nameI)

\* the swap test of the sorting loops
ShouldSwap(order, nameI, nameJ) ==
    \/ ~InPosMap(order, nameI) /\ InPosMap(order, nameJ)
    \/ /\ InPosMap(order, nameI)
       /\ InPosMap(order, nameJ)
       /\ PosMap(order, nameJ) < PosMap(order, nameI)

RECURSIVE SortInner(_, _, _, _)
SortInner(res, order, i, j) ==
    IF j > Len(res) THEN res
    ELSE SortInner(IF ShouldSwap(order, res[i], res[j]) THEN Swap(res, i, j) ELSE res,
                   order, i, j + 1)

RECURSIVE SortOuter(_, _, _)
SortOuter(res, order, i) ==
    IF i >= Len(res) THEN res
    ELSE SortOuter(SortInner(res, order, i, i + 1), order, i + 1)

\* orderComponentsByDeployment (the same function in the three deployers)
orderComponentsByDeployment(components, order) ==
    IF Len(order) = 0 THEN components ELSE SortOuter(components, order, 1)

\* what a template is rendered from
FileData(name, dependsOn, wave, comps) ==
    [Name |-> name, DependsOnName |-> dependsOn, SyncWave |-> wave, Components |-> comps]

NoData == FileData("", "", 0, <<>>)

MkdirStep(path) == [op |-> "mkdir", path |-> path, data |-> NoData]

WriteStep(path, data) == [op |-> "write", path |-> path, data |-> data]

ReadmePath == Join(BundleDir, "README.md")

\* script: the README alone, listing the ordered components
ScriptPlan(rr) ==
    <<WriteStep(ReadmePath,
        FileData("", "", 0,
                 orderComponentsByDeployment(rr.ComponentRefs, rr.DeploymentOrder)))>>

\* a wave that counts the positions of the order from 1
SyncWaveOneBased(order, name) == IF InPosMap(order, name) THEN PosMap(order, name) + 1 ELSE 0

\* argocd: orderMap[name], 0 for a name that is not in the order
SyncWaveOf(order, name) == IF InPosMap(order, name) THEN PosMap(order, name) ELSE 0

\* argocd: one Application per ordered component, app-of-apps, README
ArgoCDPlan(rr) ==
    LET ordered == orderComponentsByDeployment(rr.ComponentRefs, rr.DeploymentOrder)
        argocdDir == Join(BundleDir, "argocd")
    IN  <<MkdirStep(argocdDir)>>
        \o [k \in 1..Len(ordered) |->
              WriteStep(Join(argocdDir, ordered[k] \o "-app.yaml"),
                        FileData(ordered[k], "",
                                 SyncWaveOf(rr.DeploymentOrder, ordered[k]), <<>>))]
        \o <<WriteStep(Join(argocdDir, "app-of-apps.yaml"), NoData),
             WriteStep(ReadmePath, FileData("", "", 0, rr.ComponentRefs))>>

\* flux: kustomization, one HelmRelease per ordered component, each depending
\* on the one before it, README
FluxPlan(rr) ==
    LET ordered == orderComponentsByDeployment(rr.ComponentRefs, rr.DeploymentOrder)
        fluxDir == Join(BundleDir, "flux")
    IN  <<MkdirStep(fluxDir),
          WriteStep(Join(fluxDir, "kustomization.yaml"), NoData)>>
        \o [k \in 1..Len(ordered) |->
              WriteStep(Join(Join(BundleDir, ordered[k]), "helmrelease.yaml"),
                        FileData(ordered[k],
                                 IF k = 1 THEN "" ELSE ordered[k - 1], 0, <<>>))]
        \o <<WriteStep(ReadmePath, FileData("", "", 0, ordered))>>

\* the steps of a deployer's Generate, in program order
Plan(d, rr) ==
    IF d = "script" THEN ScriptPlan(rr)
    ELSE IF d = "argocd" THEN ArgoCDPlan(rr)
    ELSE FluxPlan(rr)

\* Generate's test of its context before a step: there is none
CancelStopsStep(d, done) == FALSE

\* result.New(deployerType)
NewArtifacts(d) ==
    [Type |-> d, Files |-> <<>>, ReadmeContent |-> FALSE, Success |-> TRUE, Error |-> ""]

\* os.WriteFile on the bundle directory
WriteFile(files, path, data) ==
    [p \in DOMAIN files \cup {path} |-> IF p = path THEN data ELSE files[p]]

GenInit ==
    /\ recipeResult \in [ComponentRefs : DistinctSeqs(CompNames, MaxComps),
                         DeploymentOrder : DistinctSeqs(CompNames, MaxComps)]
    /\ genCtxDone = FALSE
    /\ gpc = [d \in DeployerTypes |-> "idle"]
    /\ gplan = [d \in DeployerTypes |-> <<>>]
    /\ gidx = [d \in DeployerTypes |-> 0]
    /\ artifacts = [d \in DeployerTypes |-> NewArtifacts(d)]
    /\ generr = [d \in DeployerTypes |-> FALSE]
    /\ fs = <<>>
    /\ fsLog = {}
    /\ lateWrite = FALSE

\* the owner of the context cancels it
GenCancel ==
    /\ ~genCtxDone
    /\ \E d \in DeployerTypes : gpc[d] \in {"idle", "run"}
    /\ genCtxDone' = TRUE
    /\ UNCHANGED <<recipeResult, gpc, gplan, gidx, artifacts, generr, fs, fsLog, lateWrite>>
    /\ UNCHANGED otherThanGen

\* Generate is called on the bundle directory
GenStart(d) ==
    /\ gpc[d] = "idle"
    /\ gpc' = [gpc EXCEPT ![d] = "run"]
    /\ gplan' = [gplan EXCEPT ![d] = Plan(d, recipeResult)]
    /\ artifacts' = [artifacts EXCEPT ![d] = NewArtifacts(d)]
    /\ UNCHANGED <<recipeResult, genCtxDone, gidx, generr, fs, fsLog, lateWrite>>
    /\ UNCHANGED otherThanGen

\* the next step of the plan succeeds: the directory is made, or the template
\* is rendered and the file written and appended to artifacts.Files
GenStep(d) ==
    /\ gpc[d] = "run"
    /\ gidx[d] < Len(gplan[d])
    /\ ~CancelStopsStep(d, genCtxDone)
    /\ LET step == gplan[d][gidx[d] + 1] IN
        IF step.op = "write"
        THEN /\ fs' = WriteFile(fs, step.path, step.data)
             /\ fsLog' = fsLog \cup {[by |-> d, path |-> step.path]}
             /\ lateWrite' = (lateWrite \/ genCtxDone)
             /\ artifacts' = [artifacts EXCEPT ![d].Files = Append(@, step.path)]
        ELSE UNCHANGED <<fs, fsLog, lateWrite, artifacts>>
    /\ gidx' = [gidx EXCEPT ![d] = @ + 1]
    /\ UNCHANGED <<recipeResult, genCtxDone, gpc, gplan, generr>>
    /\ UNCHANGED otherThanGen

\* a failure path that hands back fresh artifacts, without the files written
FailedArtifactsEmptied(a) ==
    [a EXCEPT !.Success = FALSE, !.Error = "failed", !.Files = <<>>]

\* every failure path: artifacts.Success = false, artifacts.Error = the message
FailedArtifacts(a) == [a EXCEPT !.Success = FALSE, !.Error = "failed"]

\* the next step fails (MkdirAll, RenderTemplate or WriteFile returns an
\* error): Generate returns the artifacts and the error
GenStepFails(d) ==
    /\ gpc[d] = "run"
    /\ gidx[d] < Len(gplan[d])
    /\ gpc' = [gpc EXCEPT ![d] = "failed"]
    /\ artifacts' = [artifacts EXCEPT ![d] = FailedArtifacts(@)]
    /\ generr' = [generr EXCEPT ![d] = TRUE]
    /\ UNCHANGED <<recipeResult, genCtxDone, gplan, gidx, fs, fsLog, lateWrite>>
    /\ UNCHANGED otherThanGen

\* every step done: ReadmeContent and Duration are set, Generate returns nil
GenReturn(d) ==
    /\ gpc[d] = "run"
    /\ gidx[d] = Len(gplan[d])
    /\ gpc' = [gpc EXCEPT ![d] = "done"]
    /\ artifacts' = [artifacts EXCEPT ![d].ReadmeContent = TRUE]
    /\ UNCHANGED <<recipeResult, genCtxDone, gplan, gidx, generr, fs, fsLog, lateWrite>>
    /\ UNCHANGED otherThanGen

GenNext ==
    \/ GenCancel
    \/ \E d \in DeployerTypes : GenStart(d)
    \/ \E d \in DeployerTypes : GenStep(d)
    \/ \E d \in DeployerTypes : GenStepFails(d)
    \/ \E d \in DeployerTypes : GenReturn(d)

(***************************************************************************)
(* Checksums: checksum.GenerateChecksums and the network operator bundler. *)
(***************************************************************************)
\* ChecksumFileName
ChecksumFileName == "checksums.txt"

\* the files of a network operator bundle, relative to its directory, in the
\* order Make generates them
NetFiles ==
    <<"values.yaml", "manifests/nicclusterpolicy.yaml", "scripts/install.sh",
      "scripts/uninstall.sh", "README.md", ChecksumFileName>>

\* the same relative paths in ascending byte order
SortedRelPaths ==
    <<"README.md", ChecksumFileName, "manifests/nicclusterpolicy.yaml",
      "scripts/install.sh", "scripts/uninstall.sh", "values.yaml">>

\* a < b for two relative paths, as strings are compared
PathLess(a, b) == IndexOf(SortedRelPaths, a) < IndexOf(SortedRelPaths, b)

\* filepath.Rel(dir, file) succeeds: some path joined to dir gives file
HasRel(dir, file) == \E r \in Range(NetFiles) : Join(dir, r) = file

\* filepath.Rel(dir, file)
Rel(dir, file) == CHOOSE r \in Range(NetFiles) : Join(dir, r) = file

\* relPath of GenerateChecksums: the file itself when filepath.Rel fails
RelOrSelf(dir, file) == IF HasRel(dir, file) THEN Rel(dir, file) ELSE file

\* filepath.Base of a path under the bundle directory
Base(dir, file) ==
    LET r == RelOrSelf(dir, file) IN
    IF r = "manifests/nicclusterpolicy.yaml" THEN "nicclusterpolicy.yaml"
    ELSE IF r = "scripts/install.sh" THEN "install.sh"
    ELSE IF r = "scripts/uninstall.sh" THEN "uninstall.sh"
    ELSE r

\* relPath of generateChecksums: the base name when filepath.Rel fails
RelOrBase(dir, file) == IF HasRel(dir, file) THEN Rel(dir, file) ELSE Base(dir, file)

\* the bytes a template renders to for a file under a configuration
Render(rel, config) == [file |-> rel, config |-> config]

\* hex.EncodeToString(sha256.Sum256(data))
Sha256Hex(data) == [sha256 |-> data]

\* bundle.ComputeChecksum
ComputeChecksum(data) == Sha256Hex(data)

\* one line of checksums.txt: "<hex>  <relative path>"
ChecksumLine(sum, rel) == [sum |-> sum, path |-> rel]

\* GenerateChecksums: one line per file, in the order of the files argument
RECURSIVE ChecksumLines(_, _, _)
ChecksumLines(dir, files, content) ==
    IF files = <<>> THEN <<>>
    ELSE <<ChecksumLine(Sha256Hex(content[Head(files)]), RelOrSelf(dir, Head(files)))>>
         \o ChecksumLines(dir, Tail(files), content)

\* generateChecksums of the network operator bundler: one line per entry of
\* result.Files, in that order, but for a file named checksums.txt
RECURSIVE NetChecksumLines(_, _, _)
NetChecksumLines(dir, files, content) ==
    IF files = <<>> THEN <<>>
    ELSE IF Base(dir, Head(files)) = ChecksumFileName
    THEN NetChecksumLines(dir, Tail(files), content)
    ELSE <<ChecksumLine(ComputeChecksum(content[Head(files)]),
                            RelOrBase(dir, Head(files)))>>
         \o NetChecksumLines(dir, Tail(files), content)

\* a writeFile that forgets to record the file in the result
AddFileDropped(files, path) == files

\* writeFile: result.AddFile(path, size)
AddFile(files, path) == Append(files, path)

\* the generate function of the k-th file tests ctx.Err() on entry; the
\* uninstall script is written by the function that wrote the install script
StageChecksCtx(k) == NetFiles[k] # "scripts/uninstall.sh"

\* what is on disk for the files GenerateChecksums is given
SumContent == [f \in {Join(BundleDir, r) : r \in Range(NetFiles)} |-> Render(f, 1)]

SumInit ==
    /\ sumFiles \in DistinctSeqs({Join(BundleDir, NetFiles[k]) : k \in 1..5}, MaxSumFiles)
    /\ sumCtxDone \in BOOLEAN
    /\ sumUnreadable \in {{}} \cup {{f} : f \in {Join(BundleDir, NetFiles[k]) : k \in 1..2}}
    /\ sumpc = "call"
    /\ sumErr = "none"
    /\ sumOut = <<>>
    /\ sumWritten = FALSE
    /\ nconfig \in 1..MaxConfig
    /\ nctxDone = FALSE
    /\ nstage = 0
    /\ npc = "begin"
    /\ nfiles = <<>>
    /\ nfs = <<>>
    /\ nwrites = <<>>
    /\ nsums = <<>>
    /\ nret = [result |-> "pending", err |-> "pending"]

\* checksum.GenerateChecksums(ctx, bundleDir, files)
GenerateChecksums ==
    /\ sumpc = "call"
    /\ sumpc' = "done"
    /\ IF sumCtxDone
       THEN /\ sumErr' = "context cancelled"
            /\ UNCHANGED <<sumOut, sumWritten>>
       ELSE IF Range(sumFiles) \cap sumUnreadable # {}
       THEN /\ sumErr' = "failed to read"
            /\ UNCHANGED <<sumOut, sumWritten>>
       ELSE /\ sumErr' = "none"
            /\ sumOut' = ChecksumLines(BundleDir, sumFiles, SumContent)
            /\ sumWritten' = TRUE
    /\ UNCHANGED <<sumFiles, sumCtxDone, sumUnreadable, nconfig, nctxDone, nstage, npc,
                   nfiles, nfs, nwrites, nsums, nret>>
    /\ UNCHANGED otherThanSum

\* GenerateChecksums when os.WriteFile of checksums.txt fails
GenerateChecksumsWriteFails ==
    /\ sumpc = "call"
    /\ ~sumCtxDone
    /\ Range(sumFiles) \cap sumUnreadable = {}
    /\ sumpc' = "done"
    /\ sumErr' = "failed to write checksums"
    /\ UNCHANGED <<sumFiles, sumCtxDone, sumUnreadable, sumOut, sumWritten, nconfig,
                   nctxDone, nstage, npc, nfiles, nfs, nwrites, nsums, nret>>
    /\ UNCHANGED otherThanSum

\* the context of the network operator's Make is cancelled
NetCancel ==
    /\ npc \in {"begin", "generate"}
    /\ ~nctxDone
    /\ nctxDone' = TRUE
    /\ UNCHANGED <<sumFiles, sumCtxDone, sumUnreadable, sumpc, sumErr, sumOut, sumWritten,
                   nconfig, nstage, npc, nfiles, nfs, nwrites, nsums, nret>>
    /\ UNCHANGED otherThanSum

\* Make: context test, validateRecipe, the result tracker, the directories
NetBegin ==
    /\ npc = "begin"
    /\ ~nctxDone
    /\ npc' = "generate"
    /\ UNCHANGED <<sumFiles, sumCtxDone, sumUnreadable, sumpc, sumErr, sumOut, sumWritten,
                   nconfig, nctxDone, nstage, nfiles, nfs, nwrites, nsums, nret>>
    /\ UNCHANGED otherThanSum

\* Make returns (nil, error): cancelled context, invalid recipe, or a failing
\* MkdirAll, template or file operation
NetFail ==
    /\ npc \in {"begin", "generate"}
    /\ npc' = "done"
    /\ nret' = [result |-> "nil", err |-> "error"]
    /\ UNCHANGED <<sumFiles, sumCtxDone, sumUnreadable, sumpc, sumErr, sumOut, sumWritten,
                   nconfig, nctxDone, nstage, nfiles, nfs, nwrites, nsums>>
    /\ UNCHANGED otherThanSum

\* the next file is rendered and written: values, NicClusterPolicy, the two
\* scripts, README, and last checksums.txt computed from result.Files
NetGenerate ==
    /\ npc = "generate"
    /\ nstage < Len(NetFiles)
    /\ ~(StageChecksCtx(nstage + 1) /\ nctxDone)
    /\ LET rel == NetFiles[nstage + 1]
           path == Join(BundleDir, rel)
       IN  /\ IF rel = ChecksumFileName
              THEN /\ nsums' = NetChecksumLines(BundleDir, nfiles, nfs)
                   /\ nfs' = WriteFile(nfs, path, nsums')
              ELSE /\ nfs' = WriteFile(nfs, path, Render(rel, nconfig))
                   /\ UNCHANGED nsums
           /\ nwrites' = Append(nwrites, path)
           /\ nfiles' = AddFile(nfiles, path)
    /\ nstage' = nstage + 1
    /\ UNCHANGED <<sumFiles, sumCtxDone, sumUnreadable, sumpc, sumErr, sumOut, sumWritten,
                   nconfig, nctxDone, npc, nret>>
    /\ UNCHANGED otherThanSum

\* every file generated: result.MarkSuccess(), return (result, nil)
NetReturn ==
    /\ npc = "generate"
    /\ nstage = Len(NetFiles)
    /\ npc' = "done"
    /\ nret' = [result |-> "result", err |-> "none"]
    /\ UNCHANGED <<sumFiles, sumCtxDone, sumUnreadable, sumpc, sumErr, sumOut, sumWritten,
                   nconfig, nctxDone, nstage, nfiles, nfs, nwrites, nsums>>
    /\ UNCHANGED otherThanSum

SumNext ==
    \/ GenerateChecksums
    \/ GenerateChecksumsWriteFails
    \/ NetCancel
    \/ NetBegin
    \/ NetFail
    \/ NetGenerate
    \/ NetReturn

(***************************************************************************)
(* Component ordering: the stable topological sort of the recipe builder.  *)
(***************************************************************************)
\* the names of the components, in recipe-declared order
NamesOf(comps) == [i \in 1..Len(comps) |-> comps[i].name]

\* the dependencyRefs of the component called name
DepsOf(comps, name) == comps[IndexOf(NamesOf(comps), name)].deps

\* a dependency edge that names no component of the recipe
HasUnknownDep(comps) ==
    \E i \in 1..Len(comps) : ~(comps[i].deps \subseteq Range(NamesOf(comps)))

\* a node counted ready whatever edges still come into it
ReadyIgnoringEdges(comps, emitted, name) == name \notin Range(emitted)

\* a node with no remaining incoming edge: not yet emitted, every dependency emitted
Ready(comps, emitted, name) ==
    /\ name \notin Range(emitted)
    /\ DepsOf(comps, name) \subseteq Range(emitted)

\* tie-break: the first ready node in recipe-declared order (0 when none)
RECURSIVE FirstReadyFrom(_, _, _)
FirstReadyFrom(comps, emitted, i) ==
    IF i > Len(comps) THEN 0
    ELSE IF Ready(comps, emitted, comps[i].name) THEN i
    ELSE FirstReadyFrom(comps, emitted, i + 1)

\* a CycleError that lists every node of the graph
RemainingAll(comps, emitted) == Range(NamesOf(comps))

\* the nodes that remain after the fixpoint
Remaining(comps, emitted) == Range(NamesOf(comps)) \ Range(emitted)

OrdInit ==
    /\ ocomps \in {q \in SeqsUpTo([name : CompNames, deps : SUBSET CompNames], MaxOrdComps) :
                      \A i, j \in 1..Len(q) : i # j => q[i].name # q[j].name}
    /\ opc = "start"
    /\ oorder = <<>>
    /\ oerr = "none"
    /\ ocycle = {}

\* an edge from an unknown name: UnresolvedDependencyError
OrderUnresolved ==
    /\ opc = "start"
    /\ HasUnknownDep(ocomps)
    /\ opc' = "done"
    /\ oerr' = "UnresolvedDependencyError"
    /\ UNCHANGED <<ocomps, oorder, ocycle>>
    /\ UNCHANGED otherThanOrd

\* the graph is built from the components and their dependencyRefs
OrderStart ==
    /\ opc = "start"
    /\ ~HasUnknownDep(ocomps)
    /\ opc' = "sort"
    /\ UNCHANGED <<ocomps, oorder, oerr, ocycle>>
    /\ UNCHANGED otherThanOrd

\* one round of the sort: the first ready node is emitted
OrderEmit ==
    /\ opc = "sort"
    /\ FirstReadyFrom(ocomps, oorder, 1) # 0
    /\ oorder' = Append(oorder, ocomps[FirstReadyFrom(ocomps, oorder, 1)].name)
    /\ UNCHANGED <<ocomps, opc, oerr, ocycle>>
    /\ UNCHANGED otherThanOrd

\* the fixpoint with every node emitted: the order is returned
OrderReturn ==
    /\ opc = "sort"
    /\ FirstReadyFrom(ocomps, oorder, 1) = 0
    /\ Remaining(ocomps, oorder) = {}
    /\ opc' = "done"
    /\ UNCHANGED <<ocomps, oorder, oerr, ocycle>>
    /\ UNCHANGED otherThanOrd

\* the fixpoint with nodes left over: CycleError listing them
OrderCycle ==
    /\ opc = "sort"
    /\ FirstReadyFrom(ocomps, oorder, 1) = 0
    /\ Remaining(ocomps, oorder) # {}
    /\ opc' = "done"
    /\ oerr' = "CycleError"
    /\ ocycle' = Remaining(ocomps, oorder)
    /\ UNCHANGED <<ocomps, oorder>>
    /\ UNCHANGED otherThanOrd

OrdNext ==
    \/ OrderUnresolved
    \/ OrderStart
    \/ OrderEmit
    \/ OrderReturn
    \/ OrderCycle

(***************************************************************************)
(* Criteria (pkg/recipe/criteria.go) and the overlay resolution of Build.  *)
(***************************************************************************)
\* criteriaAnyValue and the typed "any" constants
criteriaAnyValue == "any"

\* the zero value of a string field: what a field left unset holds
Unset == ""

\* NewCriteria: every field "any", Nodes 0
NewCriteria ==
    [Service |-> criteriaAnyValue, Fabric |-> criteriaAnyValue,
     Accelerator |-> criteriaAnyValue, Intent |-> criteriaAnyValue,
     Worker |-> criteriaAnyValue, System |-> criteriaAnyValue, Nodes |-> 0]

\* the string fields of Criteria
StringFields == {"Service", "Fabric", "Accelerator", "Intent", "Worker", "System"}

\* a field test that lets only the other side be the wildcard
FieldDiffersOneSided(a, b, any) == b # any /\ a # b

\* one test of Matches: both sides are set to something other than the
\* wildcard, and they differ
FieldDiffers(a, b, any) == a # any /\ b # any /\ a # b

\* c.Matches(other), other not nil
Matches(c, other) ==
    /\ \A f \in StringFields : ~FieldDiffers(c[f], other[f], criteriaAnyValue)
    /\ ~FieldDiffers(c.Nodes, other.Nodes, 0)

\* a score that counts the wildcard fields instead
SpecificityOfWildcards(c) ==
    Cardinality({f \in StringFields : c[f] = criteriaAnyValue}) + (IF c.Nodes = 0 THEN 1 ELSE 0)

\* c.Specificity(): the number of fields that differ from the wildcard
Specificity(c) ==
    Cardinality({f \in StringFields : c[f] # criteriaAnyValue}) + (IF c.Nodes # 0 THEN 1 ELSE 0)

\* the criteria the model draws requests and overlays from
CriteriaValues ==
    {[NewCriteria EXCEPT !.Service = sv, !.Nodes = n] :
        sv \in {Unset, criteriaAnyValue, "eks"}, n \in {0, 1}}

\* the keys of the values tree
ValueKeys == {"driver.version"}

\* the overlays whose criteria match the request, in source order
RECURSIVE FilterFrom(_, _, _)
FilterFrom(query, overlays, i) ==
    IF i > Len(overlays) THEN <<>>
    ELSE (IF Matches(overlays[i].criteria, query) THEN <<i>> ELSE <<>>)
         \o FilterFrom(query, overlays, i + 1)

\* an insertion that keeps the source order whatever the specificity
InsertAtEnd(overlays, sorted, i) == Append(sorted, i)

\* insertion of overlay i behind every overlay of the same or lower specificity
RECURSIVE InsertBySpecificity(_, _, _)
InsertBySpecificity(overlays, sorted, i) ==
    IF sorted = <<>> THEN <<i>>
    ELSE IF Specificity(overlays[Head(sorted)].criteria) <= Specificity(overlays[i].criteria)
    THEN <<Head(sorted)>> \o InsertBySpecificity(overlays, Tail(sorted), i)
    ELSE <<i>> \o sorted

\* sort by (specificity ascending, source order ascending)
RECURSIVE SortBySpecificity(_, _)
SortBySpecificity(overlays, ids) ==
    IF ids = <<>> THEN <<>>
    ELSE InsertBySpecificity(overlays,
                             SortBySpecificity(overlays, SubSeq(ids, 1, Len(ids) - 1)),
                             ids[Len(ids)])

\* the values-tree merge at the leaves: the overlay wins at every key it sets
MergeValues(values, overlays, i) ==
    [k \in ValueKeys |-> IF k \in overlays[i].keys THEN i ELSE values[k]]

BuildInit ==
    /\ bquery \in CriteriaValues
    /\ boverlays \in SeqsUpTo([criteria : CriteriaValues, keys : SUBSET ValueKeys], MaxOverlays)
    /\ bpc = "filter"
    /\ bmatched = <<>>
    /\ bapplied = <<>>
    /\ bvalues = [k \in ValueKeys |-> 0]

\* step 2: the overlays whose criteria match the request
BuildFilter ==
    /\ bpc = "filter"
    /\ bmatched' = FilterFrom(bquery, boverlays, 1)
    /\ bpc' = "sort"
    /\ UNCHANGED <<bquery, boverlays, bapplied, bvalues>>
    /\ UNCHANGED otherThanBuild

\* step 3: the matching overlays are sorted
BuildSort ==
    /\ bpc = "sort"
    /\ bmatched' = SortBySpecificity(boverlays, bmatched)
    /\ bpc' = "merge"
    /\ UNCHANGED <<bquery, boverlays, bapplied, bvalues>>
    /\ UNCHANGED otherThanBuild

\* step 4: the next overlay is merged onto the working copy
BuildMerge ==
    /\ bpc = "merge"
    /\ Len(bapplied) < Len(bmatched)
    /\ LET i == bmatched[Len(bapplied) + 1] IN
          /\ bvalues' = MergeValues(bvalues, boverlays, i)
          /\ bapplied' = Append(bapplied, i)
    /\ UNCHANGED <<bquery, boverlays, bpc, bmatched>>
    /\ UNCHANGED otherThanBuild

\* after the last overlay the result is returned
BuildReturn ==
    /\ bpc = "merge"
    /\ Len(bapplied) = Len(bmatched)
    /\ bpc' = "done"
    /\ UNCHANGED <<bquery, boverlays, bmatched, bapplied, bvalues>>
    /\ UNCHANGED otherThanBuild

BuildNext ==
    \/ BuildFilter
    \/ BuildSort
    \/ BuildMerge
    \/ BuildReturn

(***************************************************************************)
(* The component loops of the Flux and Argo-CD deployers' Generate.         *)
(***************************************************************************)
\* a loop that remembers only the first component it rendered
NextPreviousKept(previous, name) == IF previous = "" THEN name ELSE previous

\* previousName = componentRef.Name at the end of an iteration
NextPrevious(previous, name) == name

\* componentData.DependsOnName: set when previousName is not empty
DependsOnName(previous) == IF previous # "" THEN previous ELSE ""

ChainInit ==
    /\ ccomps \in DistinctSeqs(CompNames, MaxChain)
    /\ corder \in DistinctSeqs(CompNames, MaxChain)
    /\ cpc = "order"
    /\ cordered = <<>>
    /\ creleases = <<>>
    /\ cprevious = ""
    /\ capps = <<>>

\* orderedComponents := orderComponentsByDeployment(ComponentRefs, DeploymentOrder)
ChainOrder ==
    /\ cpc = "order"
    /\ cordered' = orderComponentsByDeployment(ccomps, corder)
    /\ cpc' = "loop"
    /\ UNCHANGED <<ccomps, corder, creleases, cprevious, capps>>
    /\ UNCHANGED otherThanChain

\* one iteration: the HelmRelease of the next component is rendered and written
ChainRelease ==
    /\ cpc = "loop"
    /\ Len(creleases) < Len(cordered)
    /\ LET name == cordered[Len(creleases) + 1] IN
          /\ creleases' = Append(creleases,
                                 [Name |-> name, DependsOnName |-> DependsOnName(cprevious)])
          /\ cprevious' = NextPrevious(cprevious, name)
    /\ UNCHANGED <<ccomps, corder, cpc, cordered, capps>>
    /\ UNCHANGED otherThanChain

\* one iteration of the Argo-CD loop: the Application of the next component
\* is rendered with its sync wave
ChainApplication ==
    /\ cpc = "loop"
    /\ Len(capps) < Len(cordered)
    /\ LET name == cordered[Len(capps) + 1] IN
          capps' = Append(capps, [Name |-> name, SyncWave |-> SyncWaveOf(corder, name)])
    /\ UNCHANGED <<ccomps, corder, cpc, cordered, creleases, cprevious>>
    /\ UNCHANGED otherThanChain

\* the loops end
ChainDone ==
    /\ cpc = "loop"
    /\ Len(creleases) = Len(cordered)
    /\ Len(capps) = Len(cordered)
    /\ cpc' = "done"
    /\ UNCHANGED <<ccomps, corder, cordered, creleases, cprevious, capps>>
    /\ UNCHANGED otherThanChain

ChainNext ==
    \/ ChainOrder
    \/ ChainRelease
    \/ ChainApplication
    \/ ChainDone

(***************************************************************************)
(* The merge of overlay fragments onto the working copy (Build, step 4).   *)
(***************************************************************************)
\* the base recipe: its components and its measurements
BaseRecipe ==
    [components |-> <<[name |-> "cert-manager", version |-> "v1"],
                      [name |-> "gpu-operator", version |-> "v1"]>>,
     measurements |-> <<[type |-> "K8s", data |-> {"version"}],
                        [type |-> "GPU", data |-> {"driver"}]>>]

\* the componentRefs an overlay fragment may carry
FragmentComponents ==
    {<<>>,
     <<[name |-> "network-operator", version |-> "v2"]>>,
     <<[name |-> "gpu-operator", version |-> "v2"]>>,
     <<[name |-> "gpu-operator", version |-> ""],
       [name |-> "network-operator", version |-> "v2"]>>}

\* the measurements an overlay fragment may carry
FragmentMeasurements ==
    {<<>>,
     <<[type |-> "GPU", data |-> {"mig"}]>>,
     <<[type |-> "OS", data |-> {"kernel"}]>>}

\* the names of a list of components
ComponentNames(cs) == [i \in 1..Len(cs) |-> cs[i].name]

\* the types of a list of measurements
MeasurementTypes(ms) == [i \in 1..Len(ms) |-> ms[i].type]

\* one component of an overlay merged onto the components: added at the end
\* when its name is missing, else its non-empty scalar fields overwrite
MergeComponent(cs, c) ==
    LET i == IndexOf(ComponentNames(cs), c.name) IN
    IF i = 0 THEN Append(cs, c)
    ELSE [cs EXCEPT ![i].version = IF c.version # "" THEN c.version ELSE @]

\* a merge that takes the overlay's component list for the result
MergeComponentsReplacing(cs, overlay) == overlay

\* the components of an overlay merged in source order
RECURSIVE MergeComponents(_, _)
MergeComponents(cs, overlay) ==
    IF overlay = <<>> THEN cs
    ELSE MergeComponents(MergeComponent(cs, Head(overlay)), Tail(overlay))

\* one measurement of an overlay merged: its type created when absent, else
\* its data merged key by key
MergeMeasurement(ms, m) ==
    LET i == IndexOf(MeasurementTypes(ms), m.type) IN
    IF i = 0 THEN Append(ms, m)
    ELSE [ms EXCEPT ![i].data = @ \cup m.data]

\* the measurements of an overlay merged in source order
RECURSIVE MergeMeasurements(_, _)
MergeMeasurements(ms, overlay) ==
    IF overlay = <<>> THEN ms
    ELSE MergeMeasurements(MergeMeasurement(ms, Head(overlay)), Tail(overlay))

MergeInit ==
    /\ kfrags \in SeqsUpTo([components : FragmentComponents,
                            measurements : FragmentMeasurements], MaxFragments)
    /\ kpc = "clone"
    /\ kidx = 0
    /\ kwork = [components |-> <<>>, measurements |-> <<>>]

\* step 1: the base recipe is deep-cloned into the working copy
MergeClone ==
    /\ kpc = "clone"
    /\ kwork' = BaseRecipe
    /\ kpc' = "merge"
    /\ UNCHANGED <<kfrags, kidx>>
    /\ UNCHANGED otherThanMerge

\* step 4: the next fragment is merged onto the working copy
MergeFragment ==
    /\ kpc = "merge"
    /\ kidx < Len(kfrags)
    /\ kwork' = [components |->
                    MergeComponents(kwork.components, kfrags[kidx + 1].components),
                 measurements |->
                    MergeMeasurements(kwork.measurements, kfrags[kidx + 1].measurements)]
    /\ kidx' = kidx + 1
    /\ UNCHANGED <<kfrags, kpc>>
    /\ UNCHANGED otherThanMerge

\* after the last fragment the working copy becomes the result
MergeReturn ==
    /\ kpc = "merge"
    /\ kidx = Len(kfrags)
    /\ kpc' = "done"
    /\ UNCHANGED <<kfrags, kidx, kwork>>
    /\ UNCHANGED otherThanMerge

MergeNext ==
    \/ MergeClone
    \/ MergeFragment
    \/ MergeReturn

(***************************************************************************)
(* The HTTP server's readiness (pkg/server).                               *)
(***************************************************************************)
\* the variable groups a step of the server leaves alone
otherThanServer ==
    <<makeVars, regVars, genVars, sumVars, ordVars, buildVars, chainVars, mergeVars>>

\* goroutines serving requests to /ready
Handlers == {"h1", "h2"}

\* request methods
Methods == {"GET", "POST"}

StatusOK == 200
StatusMethodNotAllowed == 405
StatusServiceUnavailable == 503

\* no answer written yet
NoStatus == 0

\* a handler that answers 200 whatever it read
ReadyStatusAlwaysOK(ready) == StatusOK

\* handleReady's answer for the value of s.ready it read
ReadyStatus(ready) == IF ~ready THEN StatusServiceUnavailable ELSE StatusOK

\* NewServer: the zero value of ready, no request yet
ServerInit ==
    /\ srvReady = FALSE
    /\ srvPc = "new"
    /\ hpc = [h \in Handlers |-> "idle"]
    /\ hmethod = [h \in Handlers |-> "GET"]
    /\ hready = [h \in Handlers |-> FALSE]
    /\ hphase = [h \in Handlers |-> "none"]
    /\ hcode = [h \in Handlers |-> NoStatus]

\* Start: SetReady(true), then ListenAndServe in its goroutine
Start ==
    /\ srvPc = "new"
    /\ srvReady' = TRUE
    /\ srvPc' = "serving"
    /\ UNCHANGED <<hpc, hmethod, hready, hphase, hcode>>
    /\ UNCHANGED otherThanServer

\* ListenAndServe fails: Start returns the error from errChan
ListenFails ==
    /\ srvPc = "serving"
    /\ srvPc' = "failed"
    /\ UNCHANGED <<srvReady, hpc, hmethod, hready, hphase, hcode>>
    /\ UNCHANGED otherThanServer

\* the context is done: Start calls Shutdown, which begins with SetReady(false)
Shutdown ==
    /\ srvPc = "serving"
    /\ srvReady' = FALSE
    /\ srvPc' = "shutdown"
    /\ UNCHANGED <<hpc, hmethod, hready, hphase, hcode>>
    /\ UNCHANGED otherThanServer

\* httpServer.Shutdown returns once no handler is serving a request
ShutdownReturns ==
    /\ srvPc = "shutdown"
    /\ \A h \in Handlers : hpc[h] = "idle"
    /\ srvPc' = "stopped"
    /\ UNCHANGED <<srvReady, hpc, hmethod, hready, hphase, hcode>>
    /\ UNCHANGED otherThanServer

\* a request reaches handleReady (through the listener, or called directly)
HandleReadyCall(h, method) ==
    /\ hpc[h] = "idle"
    /\ hmethod' = [hmethod EXCEPT ![h] = method]
    /\ hpc' = [hpc EXCEPT ![h] = "method"]
    /\ hcode' = [hcode EXCEPT ![h] = NoStatus]
    /\ hphase' = [hphase EXCEPT ![h] = "none"]
    /\ hready' = [hready EXCEPT ![h] = FALSE]
    /\ UNCHANGED <<srvReady, srvPc>>
    /\ UNCHANGED otherThanServer

\* a method other than GET is answered 405
HandleReadyNotGet(h) ==
    /\ hpc[h] = "method"
    /\ hmethod[h] # "GET"
    /\ hcode' = [hcode EXCEPT ![h] = StatusMethodNotAllowed]
    /\ hpc' = [hpc EXCEPT ![h] = "idle"]
    /\ UNCHANGED <<srvReady, srvPc, hmethod, hready, hphase>>
    /\ UNCHANGED otherThanServer

\* s.mu.RLock(); ready := s.ready; s.mu.RUnlock()
HandleReadyRead(h) ==
    /\ hpc[h] = "method"
    /\ hmethod[h] = "GET"
    /\ hready' = [hready EXCEPT ![h] = srvReady]
    /\ hphase' = [hphase EXCEPT ![h] = srvPc]
    /\ hpc' = [hpc EXCEPT ![h] = "answer"]
    /\ UNCHANGED <<srvReady, srvPc, hmethod, hcode>>
    /\ UNCHANGED otherThanServer

\* the answer: 503 "not_ready" or 200 "ready"
HandleReadyAnswer(h) ==
    /\ hpc[h] = "answer"
    /\ hcode' = [hcode EXCEPT ![h] = ReadyStatus(hready[h])]
    /\ hpc' = [hpc EXCEPT ![h] = "idle"]
    /\ UNCHANGED <<srvReady, srvPc, hmethod, hready, hphase>>
    /\ UNCHANGED otherThanServer

ServerNext ==
    \/ Start
    \/ ListenFails
    \/ Shutdown
    \/ ShutdownReturns
    \/ \E h \in Handlers, method \in Methods : HandleReadyCall(h, method)
    \/ \E h \in Handlers : HandleReadyNotGet(h)
    \/ \E h \in Handlers : HandleReadyRead(h)
    \/ \E h \in Handlers : HandleReadyAnswer(h)

(***************************************************************************)
(* Specifications.                                                         *)
(***************************************************************************)
\* the state of Make before it is called
MakeIdle ==
    /\ defaultRegistry = {}
    /\ options = [BundlerTypes |-> <<>>, Parallel |-> FALSE, FailFast |-> FALSE,
                  DryRun |-> FALSE]
    /\ recipe = "valid"
    /\ ctxDone = FALSE
    /\ mpc = "idle"
    /\ dirCreated = FALSE
    /\ bundlers = {}
    /\ remaining = {}
    /\ started = <<>>
    /\ startedDone = <<>>
    /\ made = {}
    /\ failed = {}
    /\ output = EmptyOutput
    /\ ret = NoReturn
    /\ wpc = [t \in BundleTypes |-> "none"]
    /\ wres = [t \in BundleTypes |-> [result |-> NewBundleResult(t), err |-> FALSE]]
    /\ resultChan = <<>>
    /\ errorChan = <<>>
    /\ groupErr = "none"

\* the deployers before any Generate is called, on an empty recipe
GenIdle ==
    /\ recipeResult = [ComponentRefs |-> <<>>, DeploymentOrder |-> <<>>]
    /\ genCtxDone = FALSE
    /\ gpc = [d \in DeployerTypes |-> "idle"]
    /\ gplan = [d \in DeployerTypes |-> <<>>]
    /\ gidx = [d \in DeployerTypes |-> 0]
    /\ artifacts = [d \in DeployerTypes |-> NewArtifacts(d)]
    /\ generr = [d \in DeployerTypes |-> FALSE]
    /\ fs = <<>>
    /\ fsLog = {}
    /\ lateWrite = FALSE

\* the checksum code before it is called, with nothing to do
SumIdle ==
    /\ sumFiles = <<>>
    /\ sumCtxDone = FALSE
    /\ sumUnreadable = {}
    /\ sumpc = "idle"
    /\ sumErr = "none"
    /\ sumOut = <<>>
    /\ sumWritten = FALSE
    /\ nconfig = 1
    /\ nctxDone = FALSE
    /\ nstage = 0
    /\ npc = "idle"
    /\ nfiles = <<>>
    /\ nfs = <<>>
    /\ nwrites = <<>>
    /\ nsums = <<>>
    /\ nret = [result |-> "pending", err |-> "pending"]

\* the component orderer with nothing to order
OrdIdle ==
    /\ ocomps = <<>>
    /\ opc = "idle"
    /\ oorder = <<>>
    /\ oerr = "none"
    /\ ocycle = {}

\* the recipe builder with no request
BuildIdle ==
    /\ bquery = NewCriteria
    /\ boverlays = <<>>
    /\ bpc = "idle"
    /\ bmatched = <<>>
    /\ bapplied = <<>>
    /\ bvalues = [k \in ValueKeys |-> 0]

\* the HelmRelease loop with nothing to render
ChainIdle ==
    /\ ccomps = <<>>
    /\ corder = <<>>
    /\ cpc = "idle"
    /\ cordered = <<>>
    /\ creleases = <<>>
    /\ cprevious = ""
    /\ capps = <<>>

\* the fragment merge with nothing to merge
MergeIdle ==
    /\ kfrags = <<>>
    /\ kpc = "idle"
    /\ kidx = 0
    /\ kwork = [components |-> <<>>, measurements |-> <<>>]

\* a server nobody sends a request to
ServerIdle == ServerInit

\* one call of bundler.Make
InitMake ==
    /\ MakeInit /\ RegInit /\ GenIdle /\ SumIdle
    /\ OrdIdle /\ BuildIdle /\ ChainIdle /\ MergeIdle /\ ServerIdle

SpecMake == InitMake /\ [][MakeNext]_vars

\* the same call with a scheduler that lets every runnable goroutine run: a
\* step of Make or of its workers that stays possible is eventually taken
SpecMakeFair == InitMake /\ [][MakeNext]_vars /\ WF_vars(MakeNext)

\* goroutines registering deployers and taking snapshots of the registry
InitReg ==
    /\ RegInit /\ MakeIdle /\ GenIdle /\ SumIdle
    /\ OrdIdle /\ BuildIdle /\ ChainIdle /\ MergeIdle /\ ServerIdle

SpecReg == InitReg /\ [][RegNext]_vars

\* the deployers' Generate run, each at most once, on one bundle directory
InitGen ==
    /\ GenInit /\ MakeIdle /\ RegInit /\ SumIdle
    /\ OrdIdle /\ BuildIdle /\ ChainIdle /\ MergeIdle /\ ServerIdle

SpecGen == InitGen /\ [][GenNext]_vars

\* one call of GenerateChecksums and one Make of the network operator bundler
InitSum ==
    /\ SumInit /\ MakeIdle /\ RegInit /\ GenIdle
    /\ OrdIdle /\ BuildIdle /\ ChainIdle /\ MergeIdle /\ ServerIdle

SpecSum == InitSum /\ [][SumNext]_vars

\* one run of the component orderer
InitOrd ==
    /\ OrdInit /\ MakeIdle /\ RegInit /\ GenIdle
    /\ SumIdle /\ BuildIdle /\ ChainIdle /\ MergeIdle /\ ServerIdle

SpecOrd == InitOrd /\ [][OrdNext]_vars

\* one Build of a recipe for a request
InitBuild ==
    /\ BuildInit /\ MakeIdle /\ RegInit /\ GenIdle
    /\ SumIdle /\ OrdIdle /\ ChainIdle /\ MergeIdle /\ ServerIdle

SpecBuild == InitBuild /\ [][BuildNext]_vars

\* one run of the HelmRelease loop
InitChain ==
    /\ ChainInit /\ MakeIdle /\ RegInit /\ GenIdle
    /\ SumIdle /\ OrdIdle /\ BuildIdle /\ MergeIdle /\ ServerIdle

SpecChain == InitChain /\ [][ChainNext]_vars

\* one merge of the matching overlays' fragments onto the base
InitMerge ==
    /\ MergeInit /\ MakeIdle /\ RegInit /\ GenIdle
    /\ SumIdle /\ OrdIdle /\ BuildIdle /\ ChainIdle /\ ServerIdle

SpecMerge == InitMerge /\ [][MergeNext]_vars

\* one server, from NewServer to its stop, and the requests to /ready
InitServer ==
    /\ ServerInit /\ MakeIdle /\ RegInit /\ GenIdle
    /\ SumIdle /\ OrdIdle /\ BuildIdle /\ ChainIdle /\ MergeIdle

SpecServer == InitServer /\ [][ServerNext]_vars

(***************************************************************************)
(* Properties of bundler.Make (checked under SpecMake).                    *)
(***************************************************************************)
\* the BundleOutput has an entry (a result or an error) that names type t
OutputNames(out, t) ==
    \/ \E i \in 1..Len(out.Results) : out.Results[i].Type = t
    \/ \E i \in 1..Len(out.Errors) : out.Errors[i].BundlerType = t

\* number of entries of output.Errors that name type t
ErrorCount(out, t) ==
    Cardinality({i \in 1..Len(out.Errors) : out.Errors[i].BundlerType = t})

\* C1: in sequential mode the selected bundlers are invoked one at a time in
\* exactly the order in which the caller listed their types.
C1_SequentialListedOrder ==
    (~options.Parallel /\ Len(options.BundlerTypes) > 0) =>
        \A i, j \in 1..Len(started) :
            i < j => IndexOf(options.BundlerTypes, started[i])
                        < IndexOf(options.BundlerTypes, started[j])

\* C2: without FailFast, once Make has returned, every selected bundler was
\* executed exactly once (also after an earlier one failed), output.Errors
\* holds exactly one entry per failed bundler and none for the others, and
\* Make returned the output with a nil error.
C2_ContinuesAndCollects ==
    (mpc = "done" /\ ~options.FailFast /\ bundlers # {}) =>
        /\ Range(started) = bundlers
        /\ Len(started) = Cardinality(bundlers)
        /\ \A t \in BundleTypes : ErrorCount(output, t) = (IF t \in failed THEN 1 ELSE 0)
        /\ Len(output.Results) = Len(started)
        /\ ret = [output |-> "output", err |-> "none"]

\* C2 witness: a first bundler failed, a later one still ran, Make returned
C2_Witness ==
    /\ mpc = "done"
    /\ ~options.FailFast
    /\ Len(started) = 2
    /\ started[1] \in failed
    /\ started[2] \notin failed
    /\ Len(output.Errors) = 1

\* C3: with FailFast in sequential mode, the first failure ends the dispatch:
\* the failing bundler is the last one invoked, and Make has returned an
\* error together with the output collected up to that failure.
C3_FailFastStopsSequential ==
    (options.FailFast /\ ~options.Parallel /\ failed # {}) =>
        /\ mpc = "done"
        /\ failed = {started[Len(started)]}
        /\ Len(output.Results) = Len(started)
        /\ Len(output.Errors) = 1
        /\ ret = [output |-> "output", err |-> "Internal"]

\* C3 witness: FailFast, sequential, a bundler failed while another was still
\* waiting for its turn, and Make has returned
C3_Witness ==
    /\ options.FailFast
    /\ ~options.Parallel
    /\ mpc = "done"
    /\ failed # {}
    /\ remaining # {}

\* C5: Make checks the cancellation token before each bundler invocation: no
\* bundler is started once the token is cancelled, and an operation whose token
\* was cancelled while bundlers were still to be started ends with a Cancelled
\* error.
C5_NoStartAfterCancel ==
    /\ \A i \in 1..Len(startedDone) : ~startedDone[i]
    /\ (mpc = "done" /\ ctxDone /\ Len(started) < Cardinality(bundlers))
          => ret.err = "Cancelled"

\* C9: when a requested type is not registered while another requested type
\* is, Make skips the former, runs the latter, and its output records a
\* warning that names the skipped type.
C9_SkippedTypeIsReported ==
    (mpc = "done" /\ ret.output = "output" /\ ~options.FailFast) =>
        /\ Range(started) = Range(options.BundlerTypes) \cap defaultRegistry
              \/ Len(options.BundlerTypes) = 0
        /\ \A t \in Range(options.BundlerTypes) \ defaultRegistry :
              OutputNames(output, t)

\* C22: Make rejects a nil recipe, and a recipe with no measurements, with an
\* error, before it creates the output directory or invokes any bundler.
C22_BadRecipeRejectedFirst ==
    recipe \in {"nil", "empty"} =>
        /\ ~dirCreated
        /\ started = <<>>
        /\ mpc \in {"start", "done"}
        /\ mpc = "done" => (ret.output = "nil" /\ ret.err = "InvalidRequest")

\* C22 witness: a Make that would have created the directory and run a
\* bundler has returned for a recipe without measurements
C22_Witness ==
    /\ mpc = "done"
    /\ recipe = "empty"
    /\ ~options.DryRun
    /\ selectBundlers(options.BundlerTypes, defaultRegistry) # {}
    /\ ret.err = "InvalidRequest"

\* C23: with DryRun set, Make changes nothing on the filesystem: the output
\* directory is not created, no bundler's Make is called, and the output
\* reports TotalFiles = 0.
C23_DryRunTouchesNothing ==
    options.DryRun =>
        /\ ~dirCreated
        /\ made = {}
        /\ output.TotalFiles = 0
        /\ output.TotalSize = 0

\* C23 witness: a dry run over two bundlers has returned its output
C23_Witness ==
    /\ mpc = "done"
    /\ options.DryRun
    /\ ret = [output |-> "output", err |-> "none"]
    /\ Len(output.Results) = 2
    /\ \A i \in 1..2 : output.Results[i].Success

\* C28: in parallel mode Make terminates: a worker about to send finds room
\* in the result channel and in the error channel, Make returns only after
\* every worker it started has returned, and Make does return.
C28_ParallelTerminates ==
    /\ [](options.Parallel =>
            /\ \A t \in bundlers :
                  /\ wpc[t] = "sendResult" => Len(resultChan) < ChanCap(bundlers)
                  /\ wpc[t] = "sendError" => Len(errorChan) < ChanCap(bundlers)
            /\ mpc = "done" => \A t \in bundlers : wpc[t] = "done")
    /\ (options.Parallel => <>(mpc = "done"))

\* C28 witness: two workers have sent their results, the result channel is
\* full, and one of them is about to send its error
C28_Witness ==
    /\ options.Parallel
    /\ Cardinality(bundlers) = 2
    /\ Len(resultChan) = 2
    /\ \E t \in bundlers : wpc[t] = "sendError"

\* the bundlers among ts whose executeBundler returned an error
Failing(ts) == {t \in ts : wres[t].err}

\* the files (or bytes) of the successful results executeBundler returned
RECURSIVE SumReturned(_, _)
SumReturned(ts, field) ==
    IF ts = {} THEN 0
    ELSE LET t == CHOOSE x \in ts : TRUE
             r == wres[t].result
         IN  (IF r.Success THEN (IF field = "Files" THEN r.Files ELSE r.Size) ELSE 0)
             + SumReturned(ts \ {t}, field)

\* C29: without failFast the output Make returns is the same function of what
\* executeBundler returned for each selected deployer, whether they ran in
\* parallel or one after the other: the results and the errors are those
\* returned, each once and in any order, and the totals are their sums.
C29_ModeIndependentOutput ==
    (mpc = "done" /\ ~options.FailFast /\ ret.output = "output") =>
        /\ ret.err = "none"
        /\ Len(output.Results) = Cardinality(bundlers)
        /\ Range(output.Results) = {wres[t].result : t \in bundlers}
        /\ Len(output.Errors) = Cardinality(Failing(bundlers))
        /\ Range(output.Errors) = {[BundlerType |-> t] : t \in Failing(bundlers)}
        /\ output.TotalFiles = SumReturned(bundlers, "Files")
        /\ output.TotalSize = SumReturned(bundlers, "Size")

\* C29 witness: a parallel run of two deployers, one failing, whose results
\* were collected in another order than the deployers started
C29_Witness ==
    /\ mpc = "done"
    /\ options.Parallel
    /\ ~options.FailFast
    /\ Len(output.Results) = 2
    /\ Len(output.Errors) = 1
    /\ output.TotalFiles = 2
    /\ output.Results[1].Type # started[1]

\* the files (or bytes) of the successful ones among the first n results
RECURSIVE SumResults(_, _, _)
SumResults(rs, n, field) ==
    IF n = 0 THEN 0
    ELSE (IF rs[n].Success THEN (IF field = "Files" THEN rs[n].Files ELSE rs[n].Size)
          ELSE 0)
         + SumResults(rs, n - 1, field)

\* C30: a BundleOutput returned by Make holds one result per executed
\* deployer, and its totalFiles and totalSize are the sums of the file counts
\* and sizes of the results marked successful.
C30_TotalsAreSumsOfSuccessful ==
    ret.output = "output" =>
        /\ Len(output.Results) = Len(started)
        /\ {output.Results[i].Type : i \in 1..Len(output.Results)} = Range(started)
        /\ Cardinality(Range(started)) = Len(started)
        /\ output.TotalFiles = SumResults(output.Results, Len(output.Results), "Files")
        /\ output.TotalSize = SumResults(output.Results, Len(output.Results), "Size")

\* C30 witness: an output with a successful result of two files and a failed
\* one
C30_Witness ==
    /\ ret.output = "output"
    /\ Len(output.Results) = 2
    /\ \E i \in 1..2 : output.Results[i].Success /\ output.Results[i].Files = 2
    /\ \E i \in 1..2 : ~output.Results[i].Success
    /\ output.TotalFiles = 2
    /\ output.TotalSize = 2 * FileSize

(***************************************************************************)
(* Properties of the deployer registry (checked under SpecReg).            *)
(***************************************************************************)
\* C10: a Register for a type that already has a factory returns an error
\* and leaves that factory in place.
C10_DuplicateRegisterRejected ==
    \A p \in Procs :
        (rpc[p] = "reg_unlock" /\ rprev[p] # "nil") =>
            /\ rret[p] = "already registered"
            /\ globalDeployers[rarg[p].type] = rprev[p]

\* C10 witness: a Register that found another factory under its type has
\* finished its body
C10_Witness ==
    \E p \in Procs :
        /\ rpc[p] = "reg_unlock"
        /\ rprev[p] # "nil"
        /\ rprev[p] # rarg[p].factory

\* C11: Register and NewFromGlobal are linearizable under globalMu: for each
\* type exactly one Register has returned nil once the type is registered and
\* none before, no Register is inside its critical section while another
\* Register or a NewFromGlobal is inside its own, and the Registry a
\* NewFromGlobal is filling agrees with the global map on every key it has
\* visited, so what it returns is the map as it stood at one instant.
C11_RegistryLinearizable ==
    /\ \A t \in DeployerTypes :
          /\ regOk[t] <= 1
          /\ (regOk[t] = 1) <=> AlreadyRegistered(globalDeployers, t)
    /\ \A p, q \in Procs :
          (p # q /\ rpc[p] \in {"reg_check", "reg_body", "reg_unlock"}) =>
              rpc[q] \notin {"reg_check", "reg_body", "reg_unlock", "nfg_copy"}
    /\ \A p \in Procs :
          rpc[p] = "nfg_copy" =>
              \A t \in DeployerTypes \ snapTodo[p] : snap[p][t] = globalDeployers[t]

\* C11 witness: a Register that stored its factory still holds the lock while
\* a second Register for the same type waits for it
C11_Witness ==
    \E p, q \in Procs :
        /\ p # q
        /\ rpc[p] = "reg_unlock"
        /\ rret[p] = "nil"
        /\ rpc[q] = "reg_lock"
        /\ rarg[q].type = rarg[p].type

\* C25: the Registry returned by NewFromGlobal is an independent snapshot:
\* while a goroutine holds the Registry it was returned, no step - a global
\* Register least of all - changes the deployers visible through it.
C25_SnapshotIndependent ==
    [][\A p \in Procs :
          (rpc[p] = "idle" /\ rret[p] = "registry" /\ rpc'[p] = "idle") =>
              Deployers(NewFromGlobalResult(p))' = Deployers(NewFromGlobalResult(p))]_vars

\* C25 witness: a goroutine holds a snapshot with one type, and another type
\* has been registered globally since
C25_Witness ==
    \E p \in Procs :
        /\ rpc[p] = "idle"
        /\ rret[p] = "registry"
        /\ \E t \in DeployerTypes : snap[p][t] # "nil"
        /\ \E t \in DeployerTypes : snap[p][t] = "nil" /\ globalDeployers[t] # "nil"

(***************************************************************************)
(* Properties of the component ordering (checked under SpecOrd).           *)
(***************************************************************************)
\* x depends on y through at most k edges
RECURSIVE DependsWithin(_, _, _, _)
DependsWithin(comps, x, y, k) ==
    IF k = 0 THEN FALSE
    ELSE \/ y \in DepsOf(comps, x)
         \/ \E z \in DepsOf(comps, x) \cap Range(NamesOf(comps)) :
                DependsWithin(comps, z, y, k - 1)

\* x depends on y, directly or transitively
DependsOn(comps, x, y) == DependsWithin(comps, x, y, Len(comps))

\* the components that take part in a cycle
OnCycle(comps) == {n \in Range(NamesOf(comps)) : DependsOn(comps, n, n)}

\* C12: the deploymentOrder of a built recipe is a permutation of the
\* component names, and every dependency of a component stands strictly
\* earlier in it than the component.
C12_OrderIsTopologicalPermutation ==
    (opc = "done" /\ oerr = "none") =>
        /\ Len(oorder) = Len(ocomps)
        /\ Range(oorder) = Range(NamesOf(ocomps))
        /\ \A i \in 1..Len(oorder) :
              \A d \in DepsOf(ocomps, oorder[i]) :
                  \E j \in 1..(i - 1) : oorder[j] = d

\* C12 witness: an order was returned for three components, the one declared
\* first depending on the one declared last
C12_Witness ==
    /\ opc = "done"
    /\ oerr = "none"
    /\ Len(ocomps) = 3
    /\ ocomps[3].name \in ocomps[1].deps

\* C13: a cyclic graph fails with a CycleError whose nodes are exactly the
\* components that take part in a cycle.
C13_CycleErrorListsCycleParticipants ==
    /\ (opc = "done" /\ oerr = "CycleError") => ocycle = OnCycle(ocomps)
    /\ (opc = "done" /\ ~HasUnknownDep(ocomps) /\ OnCycle(ocomps) # {}) => oerr = "CycleError"

\* C13 as amended: a cyclic graph fails with a CycleError, and a CycleError
\* lists exactly the components that take part in a cycle or depend, directly
\* or transitively, on one that does.
C13_CycleErrorListsBlockedNodes ==
    /\ (opc = "done" /\ oerr = "CycleError") =>
          /\ OnCycle(ocomps) # {}
          /\ ocycle = {n \in Range(NamesOf(ocomps)) :
                          \/ n \in OnCycle(ocomps)
                          \/ \E m \in OnCycle(ocomps) : DependsOn(ocomps, n, m)}
    /\ (opc = "done" /\ ~HasUnknownDep(ocomps) /\ OnCycle(ocomps) # {}) => oerr = "CycleError"

\* C13 witness: a CycleError that lists a node which is on no cycle
C13_Witness ==
    /\ opc = "done"
    /\ oerr = "CycleError"
    /\ ocycle \ OnCycle(ocomps) # {}

(***************************************************************************)
(* Properties of criteria matching and overlay resolution (SpecBuild).     *)
(***************************************************************************)
\* the criteria present in the state: the request's and the overlays'
CriteriaInUse == {bquery} \cup {boverlays[i].criteria : i \in 1..Len(boverlays)}

\* the overlays whose criteria match the request
MatchingOverlays == {i \in 1..Len(boverlays) : Matches(boverlays[i].criteria, bquery)}

\* the overlays applied after overlay j
AppliedAfter(j) == {bapplied[n] : n \in (IndexOf(bapplied, j) + 1)..Len(bapplied)}

\* C14: if O1 and O2 both match the request and O1's specificity is lower
\* than O2's, O2 is applied after O1 and every value O2 sets is visible in the
\* built result.
C14_MoreSpecificOverlayVisible ==
    bpc = "done" =>
        \A i, j \in MatchingOverlays :
            Specificity(boverlays[i].criteria) < Specificity(boverlays[j].criteria) =>
                /\ IndexOf(bapplied, i) # 0
                /\ IndexOf(bapplied, i) < IndexOf(bapplied, j)
                /\ \A k \in boverlays[j].keys : bvalues[k] = j

\* C14 as amended: O2 is applied after O1, and every value O2 sets is visible
\* in the built result unless an overlay applied after O2 sets the same key.
C14_MoreSpecificOverlayAppliedLater ==
    bpc = "done" =>
        \A i, j \in MatchingOverlays :
            Specificity(boverlays[i].criteria) < Specificity(boverlays[j].criteria) =>
                /\ IndexOf(bapplied, i) # 0
                /\ IndexOf(bapplied, i) < IndexOf(bapplied, j)
                /\ \A k \in boverlays[j].keys :
                      (\A m \in AppliedAfter(j) : k \notin boverlays[m].keys) => bvalues[k] = j

\* C14 witness: the store lists the more specific overlay first, both set the
\* same key, and the result shows the value of the more specific one
C14_Witness ==
    /\ bpc = "done"
    /\ \E i, j \in MatchingOverlays :
          /\ j < i
          /\ Specificity(boverlays[i].criteria) < Specificity(boverlays[j].criteria)
          /\ \E k \in boverlays[i].keys \cap boverlays[j].keys : bvalues[k] = j

\* C15: for a request whose criteria are all ANY (nodes 0), the overlays
\* selected are exactly those whose own criteria are all ANY.
C15_AllAnySelectsOnlyAllAny ==
    (bpc \in {"sort", "merge", "done"} /\ bquery = NewCriteria) =>
        Range(bmatched) = {i \in 1..Len(boverlays) : boverlays[i].criteria = NewCriteria}

\* three criteria on which Matches is not transitive
MatchesNotTransitive ==
    \E x, y, z \in CriteriaValues : Matches(x, y) /\ Matches(y, z) /\ ~Matches(x, z)

\* C16: Matches is reflexive and symmetric on all criteria (nodes 0 being the
\* wildcard), and it is not transitive.
C16_MatchesReflexiveSymmetric ==
    /\ \A x, y \in CriteriaInUse :
          /\ Matches(x, x)
          /\ Matches(x, y) <=> Matches(y, x)
    /\ MatchesNotTransitive

\* C16 witness: two overlays were selected for a request they both match
\* although they do not match each other
C16_Witness ==
    /\ bpc = "done"
    /\ \E i, j \in Range(bmatched) :
          /\ Matches(boverlays[i].criteria, bquery)
          /\ Matches(bquery, boverlays[j].criteria)
          /\ ~Matches(boverlays[i].criteria, boverlays[j].criteria)

\* a criteria with every field that was left unset spelled out as ANY
WithUnsetAsAny(c) ==
    [f \in DOMAIN c |->
        IF f \in StringFields
        THEN (IF c[f] = Unset THEN criteriaAnyValue ELSE c[f])
        ELSE c[f]]

\* C17: a field left unset behaves exactly like ANY: Matches treats it as a
\* wildcard and Specificity does not count it.
C17_UnsetFieldIsAny ==
    bpc = "done" =>
        \A x, y \in CriteriaInUse :
            /\ Matches(x, y) <=> Matches(WithUnsetAsAny(x), WithUnsetAsAny(y))
            /\ Specificity(x) = Specificity(WithUnsetAsAny(x))

(***************************************************************************)
(* Properties of the fragment merge (checked under SpecMerge).             *)
(***************************************************************************)
\* C24: merging overlays removes nothing from the base: every measurement
\* type and every component of the base recipe is present in the working copy
\* after each merge, and in the built result.
C24_BasePreserved ==
    kpc \in {"merge", "done"} =>
        /\ Range(ComponentNames(BaseRecipe.components))
              \subseteq Range(ComponentNames(kwork.components))
        /\ Range(MeasurementTypes(BaseRecipe.measurements))
              \subseteq Range(MeasurementTypes(kwork.measurements))

\* C24 witness: two fragments were merged, one overwriting a base component,
\* one adding a component and a measurement type
C24_Witness ==
    /\ kpc = "done"
    /\ kidx = 2
    /\ Len(kwork.components) = 3
    /\ Len(kwork.measurements) = 3
    /\ \E i \in 1..3 : kwork.components[i] = [name |-> "gpu-operator", version |-> "v2"]

Named(name) == name \in Range(corder)

\* C18: the components named in deploymentOrder are emitted in exactly that
\* relative order, every component not named in it is emitted after all named
\* ones, and the emitted components are the recipe's components.
C18_EmittedInDeploymentOrder ==
    cpc \in {"loop", "done"} =>
        /\ Len(cordered) = Len(ccomps)
        /\ Range(cordered) = Range(ccomps)
        /\ \A i, j \in 1..Len(cordered) :
              i < j =>
                 /\ (Named(cordered[i]) /\ Named(cordered[j])) =>
                        IndexOf(corder, cordered[i]) < IndexOf(corder, cordered[j])
                 /\ ~Named(cordered[i]) => ~Named(cordered[j])

\* C18 witness: three components were ordered, the recipe declaring a
\* component that is not in the order first and the last of the order second
C18_Witness ==
    /\ cpc = "done"
    /\ Len(ccomps) = 3
    /\ Len(corder) = 2
    /\ ~Named(ccomps[1])
    /\ ccomps[2] = corder[2]
    /\ ccomps[3] = corder[1]

\* C19: the components that are not named in deploymentOrder keep their
\* original relative order among themselves in the ordered output.
C19_UnnamedKeepOrder ==
    cpc \in {"loop", "done"} =>
        \A i, j \in 1..Len(cordered) :
            (i < j /\ ~Named(cordered[i]) /\ ~Named(cordered[j])) =>
                IndexOf(ccomps, cordered[i]) < IndexOf(ccomps, cordered[j])

\* C20: the first HelmRelease emitted declares no dependsOn, and every later
\* one declares dependsOn on exactly the component emitted immediately before.
C20_FluxLinearChain ==
    /\ \A k \in 1..Len(creleases) :
          /\ creleases[k].Name = cordered[k]
          /\ creleases[k].DependsOnName = (IF k = 1 THEN "" ELSE creleases[k - 1].Name)
    /\ cpc = "done" => Len(creleases) = Len(ccomps)

\* C20 witness: a chain of three HelmReleases has been emitted
C20_Witness ==
    /\ cpc = "done"
    /\ Len(creleases) = 3
    /\ creleases[3].DependsOnName = cordered[2]

\* C21: each component's Argo-CD syncWave is its 0-based index in
\* deploymentOrder, and a component that is not in deploymentOrder gets wave 0.
C21_SyncWaveIsOrderIndex ==
    /\ \A k \in 1..Len(capps) :
          /\ capps[k].Name = cordered[k]
          /\ capps[k].SyncWave =
                (IF Named(capps[k].Name) THEN IndexOf(corder, capps[k].Name) - 1 ELSE 0)
    /\ cpc = "done" => Len(capps) = Len(ccomps)

\* C21 witness: Applications were rendered for the component second in the
\* order and for one that is not in the order
C21_Witness ==
    /\ cpc = "done"
    /\ \E k \in 1..Len(capps) : capps[k].SyncWave = 1
    /\ \E k \in 1..Len(capps) : ~Named(capps[k].Name) /\ capps[k].SyncWave = 0

(***************************************************************************)
(* Properties of the deployers (checked under SpecGen).                    *)
(***************************************************************************)
\* the paths a deployer has written
WrittenBy(d) == {w.path : w \in {x \in fsLog : x.by = d}}

\* C4: the sets of paths written by different deployers run on the same
\* bundle directory are pairwise disjoint.
C4_DisjointWrites ==
    \A d1, d2 \in DeployerTypes :
        d1 # d2 => WrittenBy(d1) \cap WrittenBy(d2) = {}

\* C6: Generate checks the cancellation token before each file write: no
\* file is written after the token has been cancelled.
C6_NoWriteAfterCancel ==
    ~lateWrite

\* C27: when Generate fails part-way it returns an error and artifacts with
\* Success false and a non-empty Error; artifacts.Files lists exactly the
\* files the deployer wrote before the failure, each once, and every one of
\* them is still in the bundle directory.
C27_PartialFailureKeepsFiles ==
    \A d \in DeployerTypes :
        gpc[d] = "failed" =>
            /\ generr[d]
            /\ ~artifacts[d].Success
            /\ artifacts[d].Error # ""
            /\ Range(artifacts[d].Files) = WrittenBy(d)
            /\ Cardinality(WrittenBy(d)) = Len(artifacts[d].Files)
            /\ WrittenBy(d) \subseteq DOMAIN fs

\* C27 witness: a deployer failed after it had written two files
C27_Witness ==
    \E d \in DeployerTypes :
        /\ gpc[d] = "failed"
        /\ Len(artifacts[d].Files) = 2

(***************************************************************************)
(* Properties of the checksum files (checked under SpecSum).               *)
(***************************************************************************)
\* the lines are in strictly ascending order of their path
SortedByPath(lines) ==
    \A i, j \in 1..Len(lines) : i < j => PathLess(lines[i].path, lines[j].path)

\* the relative paths of the lines, in order
LinePaths(lines) == [i \in 1..Len(lines) |-> lines[i].path]

\* C7: the lines of checksums.txt are in ascending order of their relative
\* path, whatever order the files were emitted in or passed to the generator.
C7_ChecksumsSortedByPath ==
    /\ sumWritten => SortedByPath(sumOut)
    /\ Join(BundleDir, ChecksumFileName) \in DOMAIN nfs => SortedByPath(nsums)

\* C8: checksums.txt is written after every other file of the bundle, holds
\* exactly one line for each file written before it, and no line for itself.
C8_ChecksumsLastAndComplete ==
    LET sumPath == Join(BundleDir, ChecksumFileName) IN
    /\ sumPath \in DOMAIN nfs =>
        /\ nwrites[Len(nwrites)] = sumPath
        /\ Len(nsums) = Len(nwrites) - 1
        /\ \A i \in 1..Len(nsums) :
              /\ nsums[i].path = Rel(BundleDir, nwrites[i])
              /\ nsums[i].sum = Sha256Hex(nfs[nwrites[i]])
              /\ nsums[i].path # ChecksumFileName
    /\ (npc = "done" /\ nret.err = "none") => sumPath \in DOMAIN nfs
    /\ sumWritten =>
        /\ Len(sumOut) = Len(sumFiles)
        /\ \A i \in 1..Len(sumOut) :
              /\ sumOut[i].path = Rel(BundleDir, sumFiles[i])
              /\ sumOut[i].path # ChecksumFileName

\* C8 witness: the network operator bundler has written its five files and
\* then checksums.txt, and Make has returned
C8_Witness ==
    /\ npc = "done"
    /\ nret.err = "none"
    /\ Len(nwrites) = 6
    /\ Len(nsums) = 5

====
